---- MODULE Spec2Model ----
(***************************************************************************)
(* Sentiment pipeline of the Proto repository: the operations of rnn.js   *)
(* on the module-level currentModel (create, load, dispose, train with     *)
(* its per-epoch callback, evaluate, predict, save), the Tokenizer of      *)
(* data-loader.js, prepareTensors with its seeded shuffle, the click       *)
(* handlers of app.js with the dataset object and the tokenizer object     *)
(* built when a model is loaded, and scrapePlaceComments of the Yandex     *)
(* Maps scraper.                                                           *)
(***************************************************************************)
EXTENDS Integers, Sequences, FiniteSets, TLC

(***************************************************************************)
(* Bounds                                                                  *)
(***************************************************************************)
MaxModels == 2

\* longest text handed to _normalize, in characters
MaxChars == 4

\* padSequences: longest row, most rows, largest seqLen
MaxRowLen == 3

MaxPadRows == 2

MaxSeqLen == 3

\* fitOnTexts and textsToSequences: largest numWords, most texts of a
\* corpus, most texts of one textsToSequences call
MaxCap == 5

MaxCorpus == 2

MaxEnc == 2

\* prepareTensors: most rows of the caller's arrays, most tensors created
MaxRows == 3

MaxTensors == 8

\* trainModel: most epochs of a call
MaxEpochs == 2

\* evaluateModel: most rows of the test set
MaxTest == 3

\* saveModel: the weight bytes of a model
MaxWeightBytes == 2

\* the page: most handlers suspended at an await at the same time
MaxInFlight == 2

VARIABLES
    currentModel,   \* rnn.js:4   0 stands for null, otherwise a model id
    liveModels,     \* ids of the models constructed and not yet disposed
    nextModelId,    \* the id the next constructed model gets
    lastCall,       \* the rnn.js call made or ended last and how it ended
    training,       \* the trainModel call in flight: its position and its log
    tokenizer,      \* data-loader.js:13-18  the fields of a Tokenizer
    tokCall,        \* the last Tokenizer method called, its argument and result
    input,          \* the arguments the caller holds for the Tokenizer methods
    texts,          \* the texts array the caller of prepareTensors holds
    labels,         \* the labels array the caller of prepareTensors holds
    tensors,        \* the number of tensors prepareTensors has created
    prepCall,       \* the last prepareTensors call: arguments, arrays before, result
    artifacts,      \* the topology and the weight bytes of the current model
    dataset,        \* app.js:59-67  the dataset object of the page
    disposed,       \* ids of the dataset tensors that have been disposed
    pending,        \* the calls and handlers suspended at an await
    loadedCall,     \* the last method called on the tokenizer object app.js rebuilds
    scrape          \* the YandexMapsScraper and its scrapePlaceComments call that moved last

rnnVars == <<currentModel, liveModels, nextModelId, lastCall, training>>

tokVars == <<tokenizer, tokCall, input>>

prepVars == <<texts, labels, tensors, prepCall>>

modelVars == <<artifacts>>

appVars == <<dataset, disposed, pending, loadedCall, scrape>>

\* the page without its calls in flight
pageVars == <<dataset, disposed, loadedCall, scrape>>

vars == <<currentModel, liveModels, nextModelId, lastCall, training, tokenizer, tokCall, input,
          texts, labels, tensors, prepCall, artifacts, dataset, disposed, pending,
          loadedCall, scrape>>

(***************************************************************************)
(* data-loader.js: Tokenizer                                               *)
(*                                                                         *)
(* A string is a sequence of one-character strings.  A value handed to a   *)
(* method that expects a text is a record: kind is the typeof the value    *)
(* ("string", "number", "object", "undefined"), s its characters when it   *)
(* is a string.                                                            *)
(***************************************************************************)
Str(s) == [kind |-> "string", s |-> s]

NonStrings == {[kind |-> "undefined", s |-> <<>>],
               [kind |-> "object", s |-> <<>>],
               [kind |-> "number", s |-> <<>>]}

LowerLetters == {"a","b","c","d","e","f","g","h","i","j","k","l","m",
                 "n","o","p","q","r","s","t","u","v","w","x","y","z"}

Digits == {"0","1","2","3","4","5","6","7","8","9"}

\* what \s matches among the characters of the model
Whitespace == {" ", "\t", "\n"}

\* the complement of the class [^a-z0-9'\s]
KeptChars == LowerLetters \cup Digits \cup {"'"} \cup Whitespace

UpperToLower ==
    [c \in {"A","B","C","D","E","F","G","H","I","J","K","L","M",
            "N","O","P","Q","R","S","T","U","V","W","X","Y","Z"} |->
        CASE c = "A" -> "a" [] c = "B" -> "b" [] c = "C" -> "c" [] c = "D" -> "d"
          [] c = "E" -> "e" [] c = "F" -> "f" [] c = "G" -> "g" [] c = "H" -> "h"
          [] c = "I" -> "i" [] c = "J" -> "j" [] c = "K" -> "k" [] c = "L" -> "l"
          [] c = "M" -> "m" [] c = "N" -> "n" [] c = "O" -> "o" [] c = "P" -> "p"
          [] c = "Q" -> "q" [] c = "R" -> "r" [] c = "S" -> "s" [] c = "T" -> "t"
          [] c = "U" -> "u" [] c = "V" -> "v" [] c = "W" -> "w" [] c = "X" -> "x"
          [] c = "Y" -> "y" [] c = "Z" -> "z"]

ToLowerCase(s) ==
    [i \in 1..Len(s) |-> IF s[i] \in DOMAIN UpperToLower THEN UpperToLower[s[i]] ELSE s[i]]

SetMin(S) == CHOOSE x \in S : \A y \in S : x <= y

SetMax(S) == CHOOSE x \in S : \A y \in S : x >= y

\* .replace(/[^a-z0-9'\s]+/g, " "): every maximal run of characters outside
\* the class becomes one space
ReplacePunct(s) ==
    LET marks == [i \in 1..Len(s) |->
                    IF s[i] \in KeptChars THEN s[i]
                    ELSE IF i > 1 /\ s[i-1] \notin KeptChars THEN "" ELSE " "]
    IN SelectSeq(marks, LAMBDA c : c # "")

\* .replace(/\s+/g, " "): every maximal run of whitespace becomes one space
CollapseSpace(s) ==
    LET marks == [i \in 1..Len(s) |->
                    IF s[i] \notin Whitespace THEN s[i]
                    ELSE IF i > 1 /\ s[i-1] \in Whitespace THEN "" ELSE " "]
    IN SelectSeq(marks, LAMBDA c : c # "")

\* .trim()
Trim(s) ==
    LET idx == {i \in 1..Len(s) : s[i] \notin Whitespace}
    IN IF idx = {} THEN <<>> ELSE SubSeq(s, SetMin(idx), SetMax(idx))

\* the two replacements in the other order
StrippedSpaceFirst(lowered) == Trim(ReplacePunct(CollapseSpace(lowered)))

\* the chain of data-loader.js:38 applied to the lowered text
Stripped(lowered) == Trim(CollapseSpace(ReplacePunct(lowered)))

\* .split(" ")
RECURSIVE Split(_)
Split(s) ==
    LET sp == {i \in 1..Len(s) : s[i] = " "}
    IN IF sp = {} THEN <<s>>
       ELSE <<SubSeq(s, 1, SetMin(sp) - 1)>> \o Split(SubSeq(s, SetMin(sp) + 1, Len(s)))

\* .join(" ")
RECURSIVE Join(_)
Join(ws) ==
    IF ws = <<>> THEN <<>>
    ELSE IF Len(ws) = 1 THEN ws[1]
    ELSE ws[1] \o <<" ">> \o Join(Tail(ws))

\* this._stop
Stop == {
    <<"a">>, <<"a","n">>, <<"t","h","e">>, <<"a","n","d">>, <<"o","r">>,
    <<"i","f">>, <<"i","n">>, <<"o","n">>, <<"f","o","r">>, <<"t","o">>,
    <<"f","r","o","m">>, <<"i","s">>, <<"a","r","e">>, <<"w","a","s">>,
    <<"w","e","r","e">>, <<"b","e">>, <<"b","e","e","n">>,
    <<"b","e","i","n","g">>, <<"o","f">>, <<"w","i","t","h">>, <<"i","t">>,
    <<"t","h","i","s">>, <<"t","h","a","t">>, <<"t","h","e","s","e">>,
    <<"t","h","o","s","e">>, <<"a","t">>, <<"b","y">>, <<"a","s">>,
    <<"b","u","t">>, <<"w","h","a","t">>, <<"w","h","i","c","h">>,
    <<"w","h","o">>, <<"w","h","o","m">>, <<"i","n","t","o">>,
    <<"o","u","t">>, <<"u","p">>, <<"d","o","w","n">>, <<"o","v","e","r">>,
    <<"u","n","d","e","r">>, <<"a","g","a","i","n">>,
    <<"f","u","r","t","h","e","r">>, <<"t","h","e","n">>,
    <<"o","n","c","e">>, <<"h","e","r","e">>, <<"t","h","e","r","e">>,
    <<"w","h","e","n">>, <<"w","h","e","r","e">>, <<"w","h","y">>,
    <<"h","o","w">>, <<"a","l","l">>, <<"a","n","y">>, <<"b","o","t","h">>,
    <<"e","a","c","h">>, <<"f","e","w">>, <<"m","o","r","e">>,
    <<"m","o","s","t">>, <<"o","t","h","e","r">>, <<"s","o","m","e">>,
    <<"s","u","c","h">>, <<"n","o">>, <<"n","o","r">>, <<"n","o","t">>,
    <<"o","n","l","y">>, <<"o","w","n">>, <<"s","a","m","e">>, <<"s","o">>,
    <<"t","h","a","n">>, <<"t","o","o">>, <<"v","e","r","y">>,
    <<"c","a","n">>, <<"w","i","l","l">>, <<"j","u","s","t">>,
    <<"d","o","n">>, <<"s","h","o","u","l","d">>, <<"n","o","w">>, <<"i">>,
    <<"m","e">>, <<"m","y">>, <<"m","y","s","e","l","f">>, <<"w","e">>,
    <<"o","u","r">>, <<"o","u","r","s">>,
    <<"o","u","r","s","e","l","v","e","s">>, <<"y","o","u">>,
    <<"y","o","u","r">>, <<"y","o","u","r","s">>,
    <<"y","o","u","r","s","e","l","f">>,
    <<"y","o","u","r","s","e","l","v","e","s">>, <<"h","e">>,
    <<"h","i","m">>, <<"h","i","s">>, <<"h","i","m","s","e","l","f">>,
    <<"s","h","e">>, <<"h","e","r">>, <<"h","e","r","s">>,
    <<"h","e","r","s","e","l","f">>, <<"i","t","s","e","l","f">>,
    <<"t","h","e","y">>, <<"t","h","e","m">>, <<"t","h","e","i","r">>,
    <<"t","h","e","i","r","s">>, <<"t","h","e","m","s","e","l","v","e","s">>,
    <<"d","o">>, <<"d","i","d">>, <<"d","o","e","s">>,
    <<"d","o","i","n","g">>, <<"h","a","v","e">>, <<"h","a","s">>,
    <<"h","a","d">>, <<"h","a","v","i","n","g">>
    }

\* Tokenizer._normalize, for a tokenizer whose removeStopwords is the flag
_normalize(removeStopwords, text) ==
    IF text.kind # "string" \/ text.s = <<>> THEN <<>>
    ELSE LET stripped == Stripped(ToLowerCase(text.s))
         IN IF ~removeStopwords THEN stripped
            ELSE Join(SelectSeq(Split(stripped), LAMBDA w : w # <<>> /\ w \notin Stop))


\* the keys the constructor puts into wordIndex (data-loader.js:16)
PadKey == <<"<","P","A","D",">">>

OovKey == <<"<","O","O","V",">">>

\* numWords when the constructor is given none
DefaultNumWords == 20000

\* new Tokenizer({ numWords, removeStopwords }); vocabSize is not set until fit
NewTokenizer(numWords, removeStopwords) ==
    [numWords |-> numWords,
     removeStopwords |-> removeStopwords,
     wordIndex |-> [w \in {PadKey, OovKey} |-> IF w = PadKey THEN 0 ELSE 1],
     indexWord |-> [i \in {0, 1} |-> IF i = 0 THEN PadKey ELSE OovKey],
     _fitted |-> FALSE,
     vocabSize |-> "undefined"]

\* the words fitOnTexts counts, in the order it meets them (lines 45-49)
RECURSIVE CorpusTokens(_, _)
CorpusTokens(removeStopwords, list) ==
    IF list = <<>> THEN <<>>
    ELSE LET norm == _normalize(removeStopwords, Head(list))
             words == IF norm = <<>> THEN <<>>
                      ELSE SelectSeq(Split(norm), LAMBDA w : w # <<>>)
         IN words \o CorpusTokens(removeStopwords, Tail(list))

\* freq.set(w, (freq.get(w) || 0) + 1) on a Map kept as the sequence of its
\* entries <<word, count>> in insertion order
FreqSet(freq, w) ==
    LET at == {k \in 1..Len(freq) : freq[k][1] = w}
    IN IF at = {} THEN Append(freq, <<w, 1>>)
       ELSE [freq EXCEPT ![SetMin(at)] = <<w, freq[SetMin(at)][2] + 1>>]

RECURSIVE CountWords(_, _)
CountWords(freq, words) ==
    IF words = <<>> THEN freq
    ELSE CountWords(FreqSet(freq, Head(words)), Tail(words))

\* a comparator that sorts by ascending frequency
CompareFreqAscending(a, b) == a[2] - b[2]

\* the comparator of line 54
CompareFreq(a, b) == b[2] - a[2]

\* Array.prototype.sort with that comparator: a stable sort, an entry goes
\* behind every entry already placed that does not compare greater than it
InsertSorted(sorted, e) ==
    LET before == {k \in 1..Len(sorted) : CompareFreq(sorted[k], e) <= 0}
        n == IF before = {} THEN 0 ELSE SetMax(before)
    IN SubSeq(sorted, 1, n) \o <<e>> \o SubSeq(sorted, n + 1, Len(sorted))

RECURSIVE SortEntries(_, _)
SortEntries(sorted, entries) ==
    IF entries = <<>> THEN sorted
    ELSE SortEntries(InsertSorted(sorted, Head(entries)), Tail(entries))

\* a limit that does not set the two reserved ids aside
LimitNoReserve(numWords) == IF numWords > 0 THEN numWords ELSE 0

\* Math.max(0, this.numWords - 2)
Limit(numWords) == IF numWords - 2 > 0 THEN numWords - 2 ELSE 0

\* sorted.slice(0, limit).map(([w]) => w)
Top(sorted, limit) ==
    [k \in 1..(IF limit < Len(sorted) THEN limit ELSE Len(sorted)) |-> sorted[k][1]]

\* the object after fitOnTexts(list): the assignments of lines 58-65 are
\* made on the wordIndex and indexWord the object already has
Fitted(tk, list) ==
    LET sorted == SortEntries(<<>>, CountWords(<<>>, CorpusTokens(tk.removeStopwords, list)))
        top == Top(sorted, Limit(tk.numWords))
        topSet == {top[k] : k \in 1..Len(top)}
        wi == [w \in DOMAIN tk.wordIndex \cup topSet |->
                 IF w \in topSet THEN 1 + CHOOSE k \in 1..Len(top) : top[k] = w
                 ELSE tk.wordIndex[w]]
        iw == [i \in DOMAIN tk.indexWord \cup {k + 1 : k \in 1..Len(top)} |->
                 IF i - 1 \in 1..Len(top) THEN top[i - 1] ELSE tk.indexWord[i]]
    IN [tk EXCEPT !.wordIndex = wi, !.indexWord = iw,
                  !.vocabSize = Cardinality(DOMAIN wi), !._fitted = TRUE]

\* The property names a plain object inherits from Object.prototype that a
\* word can be: a word is made of [a-z0-9'], and constructor is the only
\* inherited name without an upper-case letter or an underscore.
InheritedKeys == {<<"c","o","n","s","t","r","u","c","t","o","r">>}

\* What wordIndex[w] evaluates to for an inherited name: the function
\* Object, which is not a number.  -1 stands for it among the ids.
InheritedValue == -1

\* this.wordIndex[w] ?? 1
LookupId(wordIndex, w) ==
    IF w \in DOMAIN wordIndex THEN wordIndex[w]
    ELSE IF w \in InheritedKeys THEN InheritedValue
    ELSE 1

\* the callback of texts.map in textsToSequences (lines 70-74)
EncodeText(tk, t) ==
    LET norm == _normalize(tk.removeStopwords, t)
    IN IF norm = <<>> THEN <<>>
       ELSE LET words == Split(norm)
            IN [k \in 1..Len(words) |-> LookupId(tk.wordIndex, words[k])]

\* a row that keeps the last seqLen ids of a long sequence
PadRowKeepTail(s, seqLen) ==
    IF Len(s) >= seqLen THEN SubSeq(s, Len(s) - seqLen + 1, Len(s))
    ELSE s \o [k \in 1..(seqLen - Len(s)) |-> 0]

\* one row of padSequences (lines 80-86)
PadRow(s, seqLen) ==
    IF Len(s) >= seqLen THEN SubSeq(s, 1, seqLen)
    ELSE s \o [k \in 1..(seqLen - Len(s)) |-> 0]

\* Tokenizer.padSequences
PadSequences(sequences, seqLen) ==
    [i \in 1..Len(sequences) |-> PadRow(sequences[i], seqLen)]

(***************************************************************************)
(* data-loader.js: shuffleInPlace                                          *)
(*                                                                         *)
(* A 32-bit word is the pair <<high 16 bits, low 16 bits>>.                *)
(***************************************************************************)
RECURSIVE XorBits(_, _, _)
XorBits(x, y, n) ==
    IF n = 0 THEN 0
    ELSE (((x % 2) + (y % 2)) % 2) + 2 * XorBits(x \div 2, y \div 2, n - 1)

RECURSIVE OrBits(_, _, _)
OrBits(x, y, n) ==
    IF n = 0 THEN 0
    ELSE (IF x % 2 = 1 \/ y % 2 = 1 THEN 1 ELSE 0) + 2 * OrBits(x \div 2, y \div 2, n - 1)

RECURSIVE Pow2(_)
Pow2(n) == IF n = 0 THEN 1 ELSE 2 * Pow2(n - 1)

\* a ^ b
Xor32(a, b) == <<XorBits(a[1], b[1], 16), XorBits(a[2], b[2], 16)>>

\* a | k for a constant k below 2^16
Or32(a, k) == <<a[1], OrBits(a[2], k, 16)>>

\* a >>> n for 0 < n < 16
Shr32(a, n) ==
    <<a[1] \div Pow2(n), (a[2] \div Pow2(n)) + (a[1] % Pow2(n)) * Pow2(16 - n)>>

\* (a + b) modulo 2^32
Add32(a, b) ==
    LET lo == a[2] + b[2]
    IN <<(a[1] + b[1] + (lo \div 65536)) % 65536, lo % 65536>>

\* Math.imul(a, b): the low 32 bits of the product, by bytes
Imul32(a, b) ==
    LET a0 == a[2] % 256   a1 == a[2] \div 256   a2 == a[1] % 256   a3 == a[1] \div 256
        b0 == b[2] % 256   b1 == b[2] \div 256   b2 == b[1] % 256   b3 == b[1] \div 256
        c0 == a0 * b0
        c1 == a0 * b1 + a1 * b0 + (c0 \div 256)
        c2 == a0 * b2 + a1 * b1 + a2 * b0 + (c1 \div 256)
        c3 == a0 * b3 + a1 * b2 + a2 * b1 + a3 * b0 + (c2 \div 256)
    IN <<(c3 % 256) * 256 + (c2 % 256), (c1 % 256) * 256 + (c0 % 256)>>

\* the default seed of shuffleInPlace
ShuffleSeed == <<0, 1337>>

\* 0x6d2b79f5
MulberryStep == <<27947, 31221>>

\* s += 0x6d2b79f5, as far as the bit operations see it
MulberryNext(s) == Add32(s, MulberryStep)

\* the 32-bit numerator of the value one call of the generator returns, for
\* the generator state s after its increment (lines 131-134)
MulberryOut(s) ==
    LET t1 == Imul32(Xor32(s, Shr32(s, 15)), Or32(s, 1))
        t2 == Xor32(t1, Add32(t1, Imul32(Xor32(t1, Shr32(t1, 7)), Or32(t1, 61))))
    IN Xor32(t2, Shr32(t2, 14))

\* Math.floor(rand() * n) for rand() = u / 2^32
FloorTimes(u, n) == (u[1] * n + (u[2] * n) \div 65536) \div 65536

Swap(a, i, j) == [a EXCEPT ![i] = a[j], ![j] = a[i]]

\* the state of mulberry32(1337) after k calls (line 131)
RECURSIVE MulberryState(_)
MulberryState(k) == IF k = 0 THEN ShuffleSeed ELSE MulberryNext(MulberryState(k - 1))

\* the 32-bit numerators of the values the first calls of rand return; arrays
\* of up to MaxRows + 1 entries need no more
Draws == [k \in 1..MaxRows |-> MulberryOut(MulberryState(k))]

\* The loop of lines 138-142 from index i (0-based) down, after k calls of
\* rand; ab is the pair of arrays.
RECURSIVE ShuffleFrom(_, _, _)
ShuffleFrom(ab, i, k) ==
    IF i <= 0 THEN ab
    ELSE LET j == FloorTimes(Draws[k + 1], i + 1)
         IN ShuffleFrom(<<Swap(ab[1], i + 1, j + 1), Swap(ab[2], i + 1, j + 1)>>, i - 1, k + 1)

\* a shuffle that moves the first array only
ShuffleFirstOnly(a, b) == <<ShuffleFrom(<<a, b>>, Len(a) - 1, 0)[1], b>>

\* shuffleInPlace(a, b): the two arrays afterwards
ShuffleInPlace(a, b) == ShuffleFrom(<<a, b>>, Len(a) - 1, 0)

(***************************************************************************)
(* data-loader.js: prepareTensors                                          *)
(***************************************************************************)
NoPrepCall ==
    [op |-> "none", outcome |-> "none", passTexts |-> FALSE, passLabels |-> FALSE,
     seqLen |-> 0, maxVocab |-> 0, removeStopwords |-> FALSE, testSplit |-> 0,
     before |-> [texts |-> <<>>, labels |-> <<>>, tensors |-> 0],
     ret |-> <<>>]

\* counts without the floor of one test row
SplitCountsNoMinimum(N, testSplit) ==
    LET nTest == (N * testSplit) \div 100
    IN [nTrain |-> N - nTest, nTest |-> nTest, N |-> N]

\* lines 171-173 and 200: the counts of N rows.  testSplit is given in
\* hundredths; for the values the calls use (0, 0.2, 0.5 and 1) the double
\* N * testSplit has the floor of the exact product.
SplitCounts(N, testSplit) ==
    LET floorN == (N * testSplit) \div 100
        nTest == IF floorN > 1 THEN floorN ELSE 1
    IN [nTrain |-> N - nTest, nTest |-> nTest, N |-> N]

\* lines 170-201: the split of the padded rows and what is returned
SplitRows(sh, tk, padded, testSplit) ==
    LET N == Len(padded)
        nTest == SplitCounts(N, testSplit).nTest
        nTrain == SplitCounts(N, testSplit).nTrain
    IN [texts |-> sh[1],
        labels |-> sh[2],
        xTrain |-> SubSeq(padded, 1, nTrain),
        xTest |-> SubSeq(padded, nTrain + 1, N),
        yTrain |-> SubSeq(sh[2], 1, nTrain),
        yTest |-> SubSeq(sh[2], nTrain + 1, N),
        tokenizer |-> tk,
        counts |-> SplitCounts(N, testSplit)]

\* lines 166-168: convert and pad with the fitted tokenizer tk
Encoded(sh, tk, seqLen, testSplit) ==
    SplitRows(sh, tk,
           PadSequences([i \in 1..Len(sh[1]) |-> EncodeText(tk, sh[1][i])], seqLen),
           testSplit)

\* lines 162-164: fit a new tokenizer on the shuffled texts
FittedOn(sh, seqLen, maxVocab, removeStopwords, testSplit) ==
    Encoded(sh, Fitted(NewTokenizer(maxVocab, removeStopwords), sh[1]), seqLen, testSplit)

\* lines 159-201 for arrays t and l of equal, positive length
Prepared(t, l, seqLen, maxVocab, removeStopwords, testSplit) ==
    FittedOn(ShuffleInPlace(t, l), seqLen, maxVocab, removeStopwords, testSplit)

PrepCall(outcome, passTexts, passLabels, seqLen, maxVocab, removeStopwords, testSplit, ret) ==
    [op |-> "prepareTensors", outcome |-> outcome,
     passTexts |-> passTexts, passLabels |-> passLabels, seqLen |-> seqLen,
     maxVocab |-> maxVocab, removeStopwords |-> removeStopwords, testSplit |-> testSplit,
     before |-> [texts |-> texts, labels |-> labels, tensors |-> tensors],
     ret |-> ret]

\* a prepareTensors that cuts arrays of different lengths to the shorter one
prepareTensorsLenient(passTexts, passLabels, seqLen, maxVocab, removeStopwords, testSplit) ==
    IF ~passTexts \/ texts = <<>> \/ ~passLabels \/ labels = <<>>
      THEN /\ prepCall' = PrepCall("error", passTexts, passLabels, seqLen, maxVocab,
                                 removeStopwords, testSplit, <<>>)
           /\ UNCHANGED <<texts, labels, tensors, rnnVars, tokVars, modelVars, appVars>>
      ELSE LET n == IF Len(texts) < Len(labels) THEN Len(texts) ELSE Len(labels)
               r == Prepared(SubSeq(texts, 1, n), SubSeq(labels, 1, n),
                             seqLen, maxVocab, removeStopwords, testSplit)
           IN /\ tensors + 4 <= MaxTensors
              /\ texts' = r.texts
              /\ labels' = r.labels
              /\ tensors' = tensors + 4
              /\ prepCall' = PrepCall("ok", passTexts, passLabels, seqLen, maxVocab,
                                    removeStopwords, testSplit, r)
              /\ UNCHANGED <<rnnVars, tokVars, modelVars, appVars>>

\* passTexts, passLabels: whether the call hands over the caller's arrays (a
\* missing one is undefined)
prepareTensors(passTexts, passLabels, seqLen, maxVocab, removeStopwords, testSplit) ==
    IF ~passTexts \/ texts = <<>> \/ ~passLabels \/ labels = <<>>
      THEN /\ prepCall' = PrepCall("error", passTexts, passLabels, seqLen, maxVocab,
                                 removeStopwords, testSplit, <<>>)
           /\ UNCHANGED <<texts, labels, tensors, rnnVars, tokVars, modelVars, appVars>>
      ELSE IF Len(texts) # Len(labels)
      THEN /\ prepCall' = PrepCall("error", passTexts, passLabels, seqLen, maxVocab,
                                 removeStopwords, testSplit, <<>>)
           /\ UNCHANGED <<texts, labels, tensors, rnnVars, tokVars, modelVars, appVars>>
      ELSE LET r == Prepared(texts, labels, seqLen, maxVocab, removeStopwords, testSplit)
           IN /\ tensors + 4 <= MaxTensors
              /\ texts' = r.texts
              /\ labels' = r.labels
              /\ tensors' = tensors + 4
              /\ prepCall' = PrepCall("ok", passTexts, passLabels, seqLen, maxVocab,
                                    removeStopwords, testSplit, r)
              /\ UNCHANGED <<rnnVars, tokVars, modelVars, appVars>>

(***************************************************************************)
(* app.js: the tokenizer object built from a loaded bundle                 *)
(***************************************************************************)
\* one row of the loaded object's padSequences (app.js:362-368)
LoadedPadRow(s, seqLen) ==
    IF Len(s) >= seqLen THEN SubSeq(s, 1, seqLen)
    ELSE s \o [k \in 1..(seqLen - Len(s)) |-> 0]

LoadedPadSequences(sequences, seqLen) ==
    [i \in 1..Len(sequences) |-> LoadedPadRow(sequences[i], seqLen)]

\* the Set of app.js:377-389
LoadedStop == {
    <<"a">>, <<"a","n">>, <<"t","h","e">>, <<"a","n","d">>, <<"o","r">>,
    <<"i","f">>, <<"i","n">>, <<"o","n">>, <<"f","o","r">>, <<"t","o">>,
    <<"f","r","o","m">>, <<"i","s">>, <<"a","r","e">>, <<"w","a","s">>,
    <<"w","e","r","e">>, <<"b","e">>, <<"b","e","e","n">>,
    <<"b","e","i","n","g">>, <<"o","f">>, <<"w","i","t","h">>, <<"i","t">>,
    <<"t","h","i","s">>, <<"t","h","a","t">>, <<"t","h","e","s","e">>,
    <<"t","h","o","s","e">>, <<"a","t">>, <<"b","y">>, <<"a","s">>,
    <<"b","u","t">>, <<"w","h","a","t">>, <<"w","h","i","c","h">>,
    <<"w","h","o">>, <<"w","h","o","m">>, <<"i","n","t","o">>,
    <<"o","u","t">>, <<"u","p">>, <<"d","o","w","n">>, <<"o","v","e","r">>,
    <<"u","n","d","e","r">>, <<"a","g","a","i","n">>,
    <<"f","u","r","t","h","e","r">>, <<"t","h","e","n">>, <<"o","n","c","e">>,
    <<"h","e","r","e">>, <<"t","h","e","r","e">>, <<"w","h","e","n">>,
    <<"w","h","e","r","e">>, <<"w","h","y">>, <<"h","o","w">>,
    <<"a","l","l">>, <<"a","n","y">>, <<"b","o","t","h">>,
    <<"e","a","c","h">>, <<"f","e","w">>, <<"m","o","r","e">>,
    <<"m","o","s","t">>, <<"o","t","h","e","r">>, <<"s","o","m","e">>,
    <<"s","u","c","h">>, <<"n","o">>, <<"n","o","r">>, <<"n","o","t">>,
    <<"o","n","l","y">>, <<"o","w","n">>, <<"s","a","m","e">>, <<"s","o">>,
    <<"t","h","a","n">>, <<"t","o","o">>, <<"v","e","r","y">>,
    <<"c","a","n">>, <<"w","i","l","l">>, <<"j","u","s","t">>,
    <<"d","o","n">>, <<"s","h","o","u","l","d">>, <<"n","o","w">>, <<"i">>,
    <<"m","e">>, <<"m","y">>, <<"m","y","s","e","l","f">>, <<"w","e">>,
    <<"o","u","r">>, <<"o","u","r","s">>,
    <<"o","u","r","s","e","l","v","e","s">>, <<"y","o","u">>,
    <<"y","o","u","r">>, <<"y","o","u","r","s">>,
    <<"y","o","u","r","s","e","l","f">>,
    <<"y","o","u","r","s","e","l","v","e","s">>, <<"h","e">>, <<"h","i","m">>,
    <<"h","i","s">>, <<"h","i","m","s","e","l","f">>, <<"s","h","e">>,
    <<"h","e","r">>, <<"h","e","r","s">>, <<"h","e","r","s","e","l","f">>,
    <<"i","t","s","e","l","f">>, <<"t","h","e","y">>, <<"t","h","e","m">>,
    <<"t","h","e","i","r">>, <<"t","h","e","i","r","s">>,
    <<"t","h","e","m","s","e","l","v","e","s">>, <<"d","o">>, <<"d","i","d">>,
    <<"d","o","e","s">>, <<"d","o","i","n","g">>, <<"h","a","v","e">>,
    <<"h","a","s">>, <<"h","a","d">>, <<"h","a","v","i","n","g">>
    }

\* a _normalize that leaves the stop words in
LoadedNormalizeKeepStop(removeStopwords, text) ==
    IF text.kind # "string" \/ text.s = <<>> THEN <<>>
    ELSE Stripped(ToLowerCase(text.s))

\* _normalize of the loaded object (app.js:372-391); the chain of line 375
\* is the chain of data-loader.js:38
LoadedNormalize(removeStopwords, text) ==
    IF text.kind # "string" \/ text.s = <<>> THEN <<>>
    ELSE LET stripped == Stripped(ToLowerCase(text.s))
         IN IF ~removeStopwords THEN stripped
            ELSE Join(SelectSeq(Split(stripped), LAMBDA w : w # <<>> /\ w \notin LoadedStop))

\* app.js:347-392: the object the click handler of btnLoadModel builds from
\* result.tokenizerMeta; seqLen is the default of its padSequences.  The
\* object has no _fitted and no numWords.  From a tokenizerMeta without
\* properties ({}) every property it copies is undefined: the record holds
\* none of them.
LoadedTokenizer(meta) ==
    IF DOMAIN meta = {"noproperties"} THEN [loaded |-> TRUE]
    ELSE [loaded |-> TRUE,
          wordIndex |-> meta.wordIndex,
          indexWord |-> meta.indexWord,
          vocabSize |-> meta.vocabSize,
          removeStopwords |-> meta.removeStopwords,
          seqLen |-> meta.seqLen]

\* this.removeStopwords as line 376 tests it: undefined is falsy
LoadedRemoveStopwords(obj) == "removeStopwords" \in DOMAIN obj /\ obj.removeStopwords

\* line 357: this.wordIndex[w] throws a TypeError when wordIndex is
\* undefined; it is evaluated for a text that has a word
LoadedEncodeThrows(obj, t) ==
    /\ "wordIndex" \notin DOMAIN obj
    /\ LoadedNormalize(LoadedRemoveStopwords(obj), t) # <<>>

\* the callback of texts.map in the loaded object's textsToSequences
\* (app.js:354-358), where it does not throw
LoadedEncodeText(obj, t) ==
    LET norm == LoadedNormalize(LoadedRemoveStopwords(obj), t)
    IN IF norm = <<>> THEN <<>>
       ELSE LET words == Split(norm)
            IN [k \in 1..Len(words) |-> LookupId(obj.wordIndex, words[k])]

\* the default of seqLen in the loaded object's padSequences (line 360)
LoadedSeqLen(obj) == IF "seqLen" \in DOMAIN obj THEN obj.seqLen ELSE "undefined"

\* line 367: with seqLen undefined, s.length >= seqLen is false and
\* new Array(undefined - s.length) throws a RangeError for the first row
LoadedPadThrows(obj, sequences) == "seqLen" \notin DOMAIN obj /\ sequences # <<>>

(***************************************************************************)
(* rnn.js                                                                  *)
(*                                                                         *)
(* lastCall records the call made or ended last: its arguments, whether a  *)
(* model was current when it was made, how it ended (error names the throw *)
(* statement that ended it; "pending" when it waits at an await) and what  *)
(* it returned.                                                            *)
(***************************************************************************)
NoArgs == [none |-> TRUE]

NoRet == [none |-> TRUE]

\* the tensors a call has created itself, and how many of them it has
\* disposed when it returns or throws
NoTensors == [created |-> 0, disposed |-> 0]

NoCall ==
    [op |-> "none", outcome |-> "none", error |-> "none", hadModel |-> FALSE,
     before |-> 0, args |-> NoArgs, ret |-> NoRet, tensors |-> NoTensors]

CallWithTensors(op, outcome, error, args, ret, created, disposedOfThem) ==
    [op |-> op, outcome |-> outcome, error |-> error, hadModel |-> currentModel # 0,
     before |-> currentModel, args |-> args, ret |-> ret,
     tensors |-> [created |-> created, disposed |-> disposedOfThem]]

Call(op, outcome, error, args, ret) == CallWithTensors(op, outcome, error, args, ret, 0, 0)

NaN == -1

Null == -2

(***************************************************************************)
(* rnn.js: what saveModel writes and loadModel reads.  Of a model the      *)
(* topology (the inputDim and inputLength of its embedding), the weight    *)
(* specs and the weight bytes are kept.  The file holds the text JSON      *)
(* gives each value: a number is there as its decimal digits.              *)
(***************************************************************************)
NoArtifacts ==
    [topology |-> [inputDim |-> 0, inputLength |-> 0],
     weightSpecs |-> [bytes |-> 0],
     weightData |-> <<>>]

\* The initializers draw the weights of a new model at random; no operation
\* of rnn.js looks at them, and a new model starts from these bytes.
InitialWeights == <<0, 255>>

\* lines 28-59: the model createModel builds
Built(vocabSize, seqLen) ==
    [topology |-> [inputDim |-> vocabSize, inputLength |-> seqLen],
     weightSpecs |-> [bytes |-> Len(InitialWeights)],
     weightData |-> InitialWeights]

DigitChars == <<"0", "1", "2", "3", "4", "5", "6", "7", "8", "9">>

RECURSIVE DigitsOf(_)
DigitsOf(n) ==
    IF n < 10 THEN <<DigitChars[n + 1]>>
    ELSE DigitsOf(n \div 10) \o <<DigitChars[(n % 10) + 1]>>

NullText == <<"n", "u", "l", "l">>

\* JSON.stringify of an integer
IntToJson(n) == IF n < 0 THEN <<"-">> \o DigitsOf(0 - n) ELSE DigitsOf(n)

\* JSON.stringify of a number that can be NaN: NaN is written as null
NumberToJson(n) == IF n = NaN THEN NullText ELSE IntToJson(n)

BoolToJson(b) == IF b THEN <<"t", "r", "u", "e">> ELSE <<"f", "a", "l", "s", "e">>

DigitValue(c) == CHOOSE d \in 0..9 : DigitChars[d + 1] = c

RECURSIVE DigitsValue(_)
DigitsValue(t) ==
    IF Len(t) = 1 THEN DigitValue(t[1])
    ELSE 10 * DigitsValue(SubSeq(t, 1, Len(t) - 1)) + DigitValue(t[Len(t)])

\* JSON.parse of a number or of null
JsonToNumber(t) ==
    IF t = NullText THEN Null
    ELSE IF t[1] = "-" THEN 0 - DigitsValue(Tail(t))
    ELSE DigitsValue(t)

JsonToBool(t) == t = <<"t", "r", "u", "e">>

\* a tokenizerMeta that is an object without properties ({})
EmptyMeta == [noproperties |-> TRUE]

\* JSON.stringify of a tokenizerMeta; the words are made of characters JSON
\* writes as they are, and the keys of indexWord are property names already
MetaToJson(meta) ==
    IF meta = EmptyMeta THEN EmptyMeta
    ELSE [wordIndex |-> [w \in DOMAIN meta.wordIndex |-> IntToJson(meta.wordIndex[w])],
          indexWord |-> meta.indexWord,
          vocabSize |-> IntToJson(meta.vocabSize),
          seqLen |-> NumberToJson(meta.seqLen),
          removeStopwords |-> BoolToJson(meta.removeStopwords),
          maxVocab |-> NumberToJson(meta.maxVocab)]

\* JSON.parse of it
JsonToMeta(t) ==
    IF t = EmptyMeta THEN EmptyMeta
    ELSE [wordIndex |-> [w \in DOMAIN t.wordIndex |-> JsonToNumber(t.wordIndex[w])],
          indexWord |-> t.indexWord,
          vocabSize |-> JsonToNumber(t.vocabSize),
          seqLen |-> JsonToNumber(t.seqLen),
          removeStopwords |-> JsonToBool(t.removeStopwords),
          maxVocab |-> JsonToNumber(t.maxVocab)]

\* line 185: JSON.stringify(modelData, null, 2)
ModelDataToJson(modelData) ==
    [modelTopology |-> [inputDim |-> IntToJson(modelData.modelTopology.inputDim),
                        inputLength |-> IntToJson(modelData.modelTopology.inputLength)],
     weightSpecs |-> [bytes |-> IntToJson(modelData.weightSpecs.bytes)],
     weightData |-> [i \in 1..Len(modelData.weightData) |-> IntToJson(modelData.weightData[i])],
     format |-> modelData.format,
     generatedBy |-> modelData.generatedBy,
     convertedBy |-> modelData.convertedBy,
     savedAt |-> modelData.savedAt,
     tokenizerMeta |-> MetaToJson(modelData.tokenizerMeta)]

\* new Uint8Array(array): an element is taken modulo 256
ToUint8(n) == n % 256

\* lines 210 and 223-233: JSON.parse of the text and the artifacts built from
\* it
JsonToArtifacts(t) ==
    [topology |-> [inputDim |-> JsonToNumber(t.modelTopology.inputDim),
                   inputLength |-> JsonToNumber(t.modelTopology.inputLength)],
     weightSpecs |-> [bytes |-> JsonToNumber(t.weightSpecs.bytes)],
     weightData |-> [i \in 1..Len(t.weightData) |-> ToUint8(JsonToNumber(t.weightData[i]))]]

\* a tokenizerMeta argument that is undefined
Absent == [absent |-> TRUE]

\* the tokenizerMeta of data-loader.js:191-198 for tokenizer tk
TokenizerMeta(tk, seqLen) ==
    [wordIndex |-> tk.wordIndex, indexWord |-> tk.indexWord, vocabSize |-> tk.vocabSize,
     seqLen |-> seqLen, removeStopwords |-> tk.removeStopwords, maxVocab |-> tk.numWords]

\* lines 173-182: modelData for the artifacts art that model.save hands over;
\* Array.from(new Uint8Array(weightData)) is the list of the weight bytes
ModelData(art, tokenizerMeta) ==
    [modelTopology |-> art.topology,
     weightSpecs |-> art.weightSpecs,
     weightData |-> art.weightData,
     format |-> "layers-model",
     generatedBy |-> "TensorFlow.js",
     convertedBy |-> "TensorFlow.js",
     savedAt |-> "toISOString",
     tokenizerMeta |-> tokenizerMeta]

\* a tokenizer fitted on "t a a"
SampleTokenizer == Fitted(NewTokenizer(MaxCap, FALSE), <<Str(<<"t"," ","a"," ","a">>)>>)

\* a file saved in an earlier session: a model for the vocabulary of the
\* sample tokenizer and rows of two ids
SampleFile ==
    ModelDataToJson(
        ModelData([topology |-> [inputDim |-> SampleTokenizer.vocabSize, inputLength |-> 2],
                   weightSpecs |-> [bytes |-> 2],
                   weightData |-> <<7, 128>>],
                  TokenizerMeta(SampleTokenizer, 2)))

\* The values the callers pass for vocabSize and seqLen; 0 also stands for
\* a missing (undefined) argument: both are falsy.
SizeArgs == {-1, 0, 1, 2}

\* What loadModel is handed: no file, text that is not JSON, a bundle with a
\* section missing, a bundle whose tokenizerMeta is an object that holds no
\* tokenizer state ({}), and complete bundles: one that tf.loadLayersModel
\* rejects, the sample file, and the file the saveModel call just before
\* made the browser download.
LoadFiles == {"nofile", "notjson", "notopology", "noweightspecs", "noweightdata",
              "notokenizermeta", "emptytokenizermeta", "rejected", "valid", "download"}

\* the files that pass the checks of lines 204-220 and that
\* tf.loadLayersModel accepts
Loadable == {"emptytokenizermeta", "valid", "download"}

\* line 209: the text of a loadable file
FileText(file) ==
    CASE file = "valid" -> SampleFile
      [] file = "emptytokenizermeta" -> [SampleFile EXCEPT !.tokenizerMeta = EmptyMeta]
      [] file = "download" -> ModelDataToJson(lastCall.ret.modelData)

\* the file "download" is there when the call before was a saveModel that
\* wrote it
FileThere(file) ==
    file = "download" => lastCall.op = "saveModel" /\ lastCall.outcome = "ok"

\* the throw statement that ends loadModel for a file that is not loadable
LoadError(file) ==
    CASE file = "nofile" -> "No file provided for loading."
      [] file = "notjson" -> "JSON.parse"
      [] file \in {"notopology", "noweightspecs", "noweightdata"} -> "Invalid model file format."
      [] file = "notokenizermeta" -> "Model file is missing tokenizer metadata."
      [] OTHER -> "tf.loadLayersModel"

\* model.dispose() of the current model followed by currentModel = null
DisposeCurrent ==
    /\ liveModels' = liveModels \ {currentModel}
    /\ artifacts' = NoArtifacts
    /\ currentModel' = 0

createModel(vocabSize, seqLen, tfThrows) ==
    /\ nextModelId <= MaxModels
    /\ IF vocabSize = 0 \/ seqLen = 0
         THEN /\ lastCall' = Call("createModel", "error", "vocabSize and seqLen are required.",
                                  [vocabSize |-> vocabSize, seqLen |-> seqLen], NoRet)
              /\ UNCHANGED <<currentModel, liveModels, nextModelId, artifacts>>
         ELSE IF tfThrows
           THEN \* the old model is released, then building the layers throws
                /\ liveModels' = liveModels \ {currentModel}
                /\ artifacts' = NoArtifacts
                /\ currentModel' = 0
                /\ lastCall' = Call("createModel", "error", "tf.layers",
                                    [vocabSize |-> vocabSize, seqLen |-> seqLen], NoRet)
                /\ UNCHANGED nextModelId
           ELSE /\ liveModels' = (liveModels \ {currentModel}) \cup {nextModelId}
                /\ artifacts' = Built(vocabSize, seqLen)
                /\ currentModel' = nextModelId
                /\ nextModelId' = nextModelId + 1
                /\ lastCall' = Call("createModel", "ok", "none",
                                    [vocabSize |-> vocabSize, seqLen |-> seqLen],
                                    [model |-> nextModelId])
    /\ UNCHANGED <<training, tokVars, prepVars, appVars>>

(***************************************************************************)
(* rnn.js: the calls in flight.  loadModel, evaluateModel and saveModel     *)
(* are async functions: at each await the call is suspended and the event  *)
(* loop runs other handlers before it goes on.  A suspended call is a      *)
(* record in pending: op, stage (the await it waits at), hadModel and args *)
(* as in lastCall, and the values its local variables hold.  Two calls in  *)
(* flight are told apart by these fields.  lastCall is written by the step *)
(* in which a call is made and by the step in which it ends; before is the *)
(* current model before that step.                                         *)
(***************************************************************************)
\* a call in flight p ends in this step
Ended(p, outcome, error, ret, created, disposedOfThem) ==
    [op |-> p.op, outcome |-> outcome, error |-> error, hadModel |-> p.hadModel,
     before |-> currentModel, args |-> p.args, ret |-> ret,
     tensors |-> [created |-> created, disposed |-> disposedOfThem]]

\* the call goes on to its next await
Suspend(p, q) ==
    /\ q \notin pending
    /\ pending' = (pending \ {p}) \cup {q}

\* lines 202-209: the loadModel call that waits for file.text(); text is
\* what the file holds
LoadCall(file) ==
    [op |-> "loadModel", stage |-> "file.text", hadModel |-> currentModel # 0,
     args |-> [file |-> file],
     text |-> IF file \in Loadable THEN FileText(file) ELSE NoRet]

\* lines 202-209: without a file the call ends at once, otherwise it waits
\* for file.text()
loadModel(file) ==
    /\ nextModelId <= MaxModels
    /\ FileThere(file)
    /\ IF file = "nofile"
         THEN /\ lastCall' = Call("loadModel", "error", LoadError(file), [file |-> file], NoRet)
              /\ UNCHANGED pending
         ELSE /\ Cardinality(pending) < MaxInFlight
              /\ LoadCall(file) \notin pending
              /\ lastCall' = Call("loadModel", "pending", "none", [file |-> file], NoRet)
              /\ pending' = pending \cup {LoadCall(file)}
    /\ UNCHANGED <<currentModel, liveModels, nextModelId, training, tokVars, prepVars,
                   modelVars, pageVars>>

\* lines 209-243: the text is there.  JSON.parse or a check of lines 213-220
\* throws, or tf.loadLayersModel is called and the call waits for it.
loadModelRead(p) ==
    /\ p \in pending
    /\ p.op = "loadModel"
    /\ p.stage = "file.text"
    /\ IF LoadError(p.args.file) # "tf.loadLayersModel"
         THEN /\ lastCall' = Ended(p, "error", LoadError(p.args.file), NoRet, 0, 0)
              /\ pending' = pending \ {p}
         ELSE /\ Suspend(p, [p EXCEPT !.stage = "tf.loadLayersModel"])
              /\ UNCHANGED lastCall
    /\ UNCHANGED <<currentModel, liveModels, nextModelId, training, tokVars, prepVars,
                   modelVars, pageVars>>

\* lines 243-249 on the state of rnn.js: tf.loadLayersModel has rejected, or
\* it has built the model m and currentModel = m is written; the model held
\* until then is not disposed
LoadModelLoaded(p) ==
    /\ p \in pending
    /\ p.op = "loadModel"
    /\ p.stage = "tf.loadLayersModel"
    /\ pending' = pending \ {p}
    /\ IF p.args.file \notin Loadable
         THEN /\ lastCall' = Ended(p, "error", LoadError(p.args.file), NoRet, 0, 0)
              /\ UNCHANGED <<currentModel, liveModels, nextModelId, artifacts>>
         ELSE /\ nextModelId <= MaxModels
              /\ liveModels' = liveModels \cup {nextModelId}
              /\ artifacts' = JsonToArtifacts(p.text)
              /\ currentModel' = nextModelId
              /\ nextModelId' = nextModelId + 1
              /\ lastCall' = Ended(p, "ok", "none",
                                   [model |-> nextModelId,
                                    tokenizerMeta |-> JsonToMeta(p.text.tokenizerMeta)], 0, 0)

loadModelLoaded(p) ==
    /\ LoadModelLoaded(p)
    /\ UNCHANGED <<training, tokVars, prepVars, pageVars>>

disposeModel ==
    /\ IF currentModel # 0
         THEN DisposeCurrent
         ELSE UNCHANGED <<currentModel, liveModels, artifacts>>
    /\ lastCall' = Call("disposeModel", "ok", "none", NoArgs, NoRet)
    /\ UNCHANGED <<nextModelId, training, tokVars, prepVars, appVars>>

(***************************************************************************)
(* rnn.js: trainModel.  currentModel.fit runs the epochs one after the     *)
(* other and awaits callbacks.onEpochEnd after each of them; training      *)
(* holds the position of the call made last and log what has happened in   *)
(* it.                                                                     *)
(***************************************************************************)
NoTraining == [stage |-> "idle", model |-> 0, epochs |-> 0, epoch |-> 0, log |-> <<>>]

InFlight == training.stage \in {"fit", "batches", "frame"}

\* the handlers of the page that wait for the trainModel call of training
\* (app.js:204)
FitWaiters == {p \in pending : p.op = "trainModel" /\ p.model = training.model}

\* fit can run the batches of an epoch: the model is not disposed and, when
\* the page made the call, neither are the tensors it handed over
FitCanRun ==
    /\ training.model \in liveModels
    /\ \A p \in FitWaiters : p.tensors \cap disposed = {}

\* lines 73-85, up to the call of fit; the caller starts one call at a time
trainModel(epochs) ==
    /\ ~InFlight
    /\ IF currentModel = 0
         THEN /\ lastCall' = Call("trainModel", "error", "Model not created. Call createModel first.",
                                  [epochs |-> epochs], NoRet)
              /\ UNCHANGED training
         ELSE /\ lastCall' = Call("trainModel", "pending", "none", [epochs |-> epochs], NoRet)
              /\ training' = [stage |-> "fit", model |-> currentModel, epochs |-> epochs,
                              epoch |-> 0, log |-> <<>>]
    /\ UNCHANGED <<currentModel, liveModels, nextModelId, tokVars, prepVars,
                   modelVars, appVars>>

\* fit starts the next epoch
fitEpochStart ==
    /\ training.stage = "fit"
    /\ training.epoch < training.epochs
    /\ training' = [training EXCEPT !.stage = "batches",
                                    !.log = Append(@, <<"epoch", training.epoch>>)]
    /\ UNCHANGED <<currentModel, liveModels, nextModelId, lastCall, tokVars, prepVars,
                   modelVars, appVars>>

\* a wrapper that waits for the frame without calling onEpochEnd
fitEpochEndSilent(callbackThrows) ==
    /\ training.stage = "batches"
    /\ FitCanRun
    /\ training' = [training EXCEPT !.stage = "frame"]
    /\ UNCHANGED <<currentModel, liveModels, nextModelId, lastCall, tokVars, prepVars,
                   modelVars, appVars>>

\* lines 76-79: at the end of an epoch fit calls the wrapper, which calls the
\* caller's onEpochEnd (app.js:192-200 when the page made the call) and
\* then awaits tf.nextFrame(); an onEpochEnd that throws rejects the wrapper
\* and with it fit and trainModel, and the handler that waits for it ends in
\* its catch (app.js:213-216)
fitEpochEnd(callbackThrows) ==
    /\ training.stage = "batches"
    /\ FitCanRun
    /\ training' = [training EXCEPT
                      !.stage = IF callbackThrows THEN "failed" ELSE "frame",
                      !.log = Append(@, <<"onEpochEnd", training.epoch>>)]
    /\ pending' = IF callbackThrows THEN pending \ FitWaiters ELSE pending
    /\ UNCHANGED <<currentModel, liveModels, nextModelId, lastCall, tokVars, prepVars,
                   modelVars, pageVars>>

\* line 78: the frame arrives, the wrapper returns and fit goes on
nextFrame ==
    /\ training.stage = "frame"
    /\ training' = [training EXCEPT !.stage = "fit", !.epoch = @ + 1]
    /\ UNCHANGED <<currentModel, liveModels, nextModelId, lastCall, tokVars, prepVars,
                   modelVars, appVars>>

\* fit itself fails in an epoch (shape mismatch, a disposed model, disposed
\* tensors); trainModel throws and the handler that waits for it ends in its
\* catch (app.js:213-216)
fitThrows ==
    /\ training.stage = "batches"
    /\ training' = [training EXCEPT !.stage = "failed",
                                    !.log = Append(@, <<"throw", training.epoch>>)]
    /\ pending' = pending \ FitWaiters
    /\ UNCHANGED <<currentModel, liveModels, nextModelId, lastCall, tokVars, prepVars,
                   modelVars, pageVars>>

\* lines 85-93: all epochs are done, fit resolves and trainModel returns the
\* history; the handler that waits for it reports it and ends (app.js:212)
fitReturn ==
    /\ training.stage = "fit"
    /\ training.epoch >= training.epochs
    /\ training' = [training EXCEPT !.stage = "done",
                                    !.log = Append(@, <<"return", training.epochs>>)]
    /\ pending' = pending \ FitWaiters
    /\ UNCHANGED <<currentModel, liveModels, nextModelId, lastCall, tokVars, prepVars,
                   modelVars, pageVars>>

(***************************************************************************)
(* rnn.js: evaluateModel and predictText.  A probability or a threshold is *)
(* a number of quarters (2 is 0.5), which a float32 and a double hold      *)
(* exactly; NaN is the value a model gives whose weights have diverged.    *)
(* A metric is a fraction <<numerator, denominator>> in lowest terms.      *)
(***************************************************************************)
\* p >= threshold
AtLeast(p, threshold) == p # NaN /\ threshold # NaN /\ p >= threshold

\* lines 107 and 146, with > for >=
PredAbove(p, threshold) == IF p # NaN /\ threshold # NaN /\ p > threshold THEN 1 ELSE 0

\* lines 107 and 146: p >= threshold ? 1 : 0
Pred(p, threshold) == IF AtLeast(p, threshold) THEN 1 ELSE 0

RECURSIVE Gcd(_, _)
Gcd(a, b) == IF b = 0 THEN a ELSE Gcd(b, a % b)

\* n / d for d > 0
Frac(n, d) == <<n \div Gcd(n, d), d \div Gcd(n, d)>>

Zero == <<0, 1>>

FracAdd(x, y) == Frac(x[1] * y[2] + y[1] * x[2], x[2] * y[2])

FracMul(x, y) == Frac(x[1] * y[1], x[2] * y[2])

\* x / y for y > 0
FracDiv(x, y) == Frac(x[1] * y[2], x[2] * y[1])

\* a confusion matrix whose last branch never counts
ConfusionMatrixNoFalseNegatives(yTrue, yPred) ==
    LET Count(t, p) == Cardinality({i \in 1..Len(yTrue) :
                           yTrue[i] = t /\ i <= Len(yPred) /\ yPred[i] = p})
    IN [tp |-> Count(1, 1), tn |-> Count(0, 0), fp |-> Count(0, 1), fn |-> 0]

\* lines 110-116: the loop over the indices of yTrue; an index beyond the
\* end of yPred reads undefined, which equals neither 0 nor 1
ConfusionMatrix(yTrue, yPred) ==
    LET Count(t, p) == Cardinality({i \in 1..Len(yTrue) :
                           yTrue[i] = t /\ i <= Len(yPred) /\ yPred[i] = p})
    IN [tp |-> Count(1, 1), tn |-> Count(0, 0), fp |-> Count(0, 1), fn |-> Count(1, 0)]

\* line 118
Precision(cm) == IF cm.tp + cm.fp = 0 THEN Zero ELSE Frac(cm.tp, cm.tp + cm.fp)

\* a recall over the predicted positives
RecallOverPredicted(cm) == IF cm.tp + cm.fp = 0 THEN Zero ELSE Frac(cm.tp, cm.tp + cm.fp)

\* line 119
Recall(cm) == IF cm.tp + cm.fn = 0 THEN Zero ELSE Frac(cm.tp, cm.tp + cm.fn)

\* line 120
F1(precision, recall) ==
    IF FracAdd(precision, recall) = Zero THEN Zero
    ELSE FracDiv(FracMul(FracMul(<<2, 1>>, precision), recall), FracAdd(precision, recall))

\* lines 104-132 for the labels of y_test and the probabilities predict
\* gives the rows of X_test; loss and accuracy come from tf and are left out
Evaluated(yTest, probs, threshold) ==
    LET yPred == [i \in 1..Len(probs) |-> Pred(probs[i], threshold)]
        cm == ConfusionMatrix(yTest, yPred)
    IN [yTrue |-> yTest, yPred |-> yPred, yProb |-> probs, cm |-> cm,
        precision |-> Precision(cm), recall |-> Recall(cm),
        f1 |-> F1(Precision(cm), Recall(cm))]

\* the arguments of evaluateModel: the labels of y_test, the probabilities
\* currentModel.predict gives the rows of X_test, and the threshold
EvalArgs == [yTest |-> input.yTest, probs |-> input.probs, threshold |-> input.threshold]

\* where a call of tf can fail in evaluateModel: currentModel.evaluate (line
\* 99), data() of the loss and accuracy tensors (line 101),
\* currentModel.predict (line 104), data() of its output (line 104) and
\* y_test.data() (line 105)
EvalThrows == {"none", "evaluate", "data", "predict", "predict data", "y_test data"}

\* The tensors evaluateModel has created when it ends at throwsAt: the loss
\* and the accuracy scalar that evaluate returns and the output of predict.
\* The function has no dispose call.
EvalCreated(throwsAt) ==
    CASE throwsAt = "evaluate" -> 0
      [] throwsAt \in {"data", "predict"} -> 2
      [] OTHER -> 3

\* lines 97-101: the call up to the await of data() of the loss and the
\* accuracy.  borrowed: the ids of the tensors X_test and y_test when the
\* caller keeps them in the dataset of the page.
EvaluateCall(args, borrowed, throwsAt) ==
    IF currentModel = 0
      THEN /\ lastCall' = Call("evaluateModel", "error", "Model not created or loaded.",
                               args, NoRet)
           /\ UNCHANGED pending
    ELSE IF throwsAt = "evaluate"
      THEN /\ lastCall' = CallWithTensors("evaluateModel", "error", "tf", args, NoRet,
                                          EvalCreated(throwsAt), 0)
           /\ UNCHANGED pending
    ELSE /\ Cardinality(pending) < MaxInFlight
         /\ [op |-> "evaluateModel", stage |-> "data", hadModel |-> TRUE, args |-> args,
             model |-> currentModel, tensors |-> borrowed] \notin pending
         /\ lastCall' = Call("evaluateModel", "pending", "none", args, NoRet)
         /\ pending' = pending \cup
                         {[op |-> "evaluateModel", stage |-> "data", hadModel |-> TRUE,
                           args |-> args, model |-> currentModel, tensors |-> borrowed]}

\* throwsAt: the call of tf that fails
evaluateModel(throwsAt) ==
    /\ throwsAt \in {"none", "evaluate"}
    /\ EvaluateCall(EvalArgs, {}, throwsAt)
    /\ UNCHANGED <<currentModel, liveModels, nextModelId, training, tokVars, prepVars,
                   modelVars, pageVars>>

\* lines 101-104: data() of the loss and the accuracy has settled.  Line 104
\* reads currentModel again: when it is null by now, the read of predict
\* throws a TypeError; otherwise predict runs on the model that is current
\* now, throws when X_test is disposed by now, and the call waits for
\* data() of its output.
evaluateModelData(p, throwsAt) ==
    /\ throwsAt \in {"none", "data", "predict"}
    /\ p \in pending
    /\ p.op = "evaluateModel"
    /\ p.stage = "data"
    /\ (p.tensors \cap disposed # {}) => throwsAt # "none"
    /\ IF throwsAt = "data"
         THEN /\ lastCall' = Ended(p, "error", "tf", NoRet, EvalCreated(throwsAt), 0)
              /\ pending' = pending \ {p}
         ELSE IF currentModel = 0
         THEN /\ lastCall' = Ended(p, "error",
                                   "Cannot read properties of null (reading 'predict')",
                                   NoRet, EvalCreated("predict"), 0)
              /\ pending' = pending \ {p}
         ELSE IF throwsAt = "predict"
         THEN /\ lastCall' = Ended(p, "error", "tf", NoRet, EvalCreated(throwsAt), 0)
              /\ pending' = pending \ {p}
         ELSE /\ Suspend(p, [p EXCEPT !.stage = "predict data", !.model = currentModel])
              /\ UNCHANGED lastCall
    /\ UNCHANGED <<currentModel, liveModels, nextModelId, training, tokVars, prepVars,
                   modelVars, pageVars>>

\* lines 104-105: data() of the output of predict has settled; the call
\* waits for y_test.data()
evaluateModelProbs(p, throwsAt) ==
    /\ throwsAt \in {"none", "predict data"}
    /\ p \in pending
    /\ p.op = "evaluateModel"
    /\ p.stage = "predict data"
    /\ IF throwsAt # "none"
         THEN /\ lastCall' = Ended(p, "error", "tf", NoRet, EvalCreated(throwsAt), 0)
              /\ pending' = pending \ {p}
         ELSE /\ Suspend(p, [p EXCEPT !.stage = "y_test data"])
              /\ UNCHANGED lastCall
    /\ UNCHANGED <<currentModel, liveModels, nextModelId, training, tokVars, prepVars,
                   modelVars, pageVars>>

\* lines 105-132: y_test.data() has settled, rejected when y_test is
\* disposed by now; the metrics are computed and returned
evaluateModelLabels(p, throwsAt) ==
    /\ throwsAt \in {"none", "y_test data"}
    /\ p \in pending
    /\ p.op = "evaluateModel"
    /\ p.stage = "y_test data"
    /\ (p.tensors \cap disposed # {}) => throwsAt # "none"
    /\ pending' = pending \ {p}
    /\ lastCall' =
         IF throwsAt # "none"
           THEN Ended(p, "error", "tf", NoRet, EvalCreated(throwsAt), 0)
         ELSE Ended(p, "ok", "none", Evaluated(p.args.yTest, p.args.probs, p.args.threshold),
                    EvalCreated(throwsAt), 0)
    /\ UNCHANGED <<currentModel, liveModels, nextModelId, training, tokVars, prepVars,
                   modelVars, pageVars>>

\* !text for a text that is a string or undefined
Falsy(text) == text.kind = "undefined" \/ (text.kind = "string" /\ text.s = <<>>)

\* the arguments of predictText besides the tokenizer: the text, the seqLen
\* of tokenizerMeta and the threshold
PredictArgs == [text |-> input.text, seqLen |-> input.seqLen, threshold |-> input.threshold]

\* what predictText returns for a falsy text (line 138): no tensor is
\* created and predict is not called
PredictNothing == [prob |-> NaN, pred |-> Null, forward |-> FALSE, allocated |-> 0, row |-> <<>>]

\* lines 140-146: the row handed to the model, the probability input.prob the
\* model gives it, and the two tensors X and prob
Predicted ==
    [prob |-> input.prob,
     pred |-> Pred(input.prob, input.threshold),
     forward |-> TRUE,
     allocated |-> 2,
     row |-> PadSequences(<<EncodeText(tokenizer, input.text)>>, input.seqLen)[1]]

\* where a call of tf can fail in predictText: tf.tensor2d (line 142),
\* currentModel.predict (line 143) and prob.dataSync (line 144)
PredictThrows == {"none", "tensor2d", "predict", "dataSync"}

\* the tensors predictText has created when it ends at throwsAt: X and prob
PredictCreated(throwsAt) ==
    CASE throwsAt = "tensor2d" -> 0
      [] throwsAt = "predict" -> 1
      [] OTHER -> 2

\* a predictText that looks at the text before it looks for a model
predictTextEmptyFirst(throwsAt) ==
    /\ lastCall' =
         IF Falsy(input.text)
           THEN Call("predictText", "nan", "none", PredictArgs, PredictNothing)
         ELSE IF currentModel = 0
           THEN Call("predictText", "error", "Model not created or loaded.", PredictArgs, NoRet)
         ELSE IF ~tokenizer._fitted
           THEN Call("predictText", "error", "Tokenizer not fitted. Call fitOnTexts first.",
                     PredictArgs, NoRet)
         ELSE IF throwsAt # "none"
           THEN \* line 145 is not reached
                CallWithTensors("predictText", "error", "tf", PredictArgs, NoRet,
                                PredictCreated(throwsAt), 0)
         ELSE \* line 145: X.dispose(); prob.dispose?.()
              CallWithTensors("predictText", "ok", "none", PredictArgs, Predicted,
                              PredictCreated(throwsAt), 2)
    /\ UNCHANGED <<currentModel, liveModels, nextModelId, training, tokVars, prepVars,
                   modelVars, appVars>>

\* throwsAt: the call of tf that fails
predictText(throwsAt) ==
    /\ lastCall' =
         IF currentModel = 0
           THEN Call("predictText", "error", "Model not created or loaded.", PredictArgs, NoRet)
         ELSE IF Falsy(input.text)
           THEN Call("predictText", "nan", "none", PredictArgs, PredictNothing)
         ELSE IF ~tokenizer._fitted
           THEN Call("predictText", "error", "Tokenizer not fitted. Call fitOnTexts first.",
                     PredictArgs, NoRet)
         ELSE IF throwsAt # "none"
           THEN \* line 145 is not reached
                CallWithTensors("predictText", "error", "tf", PredictArgs, NoRet,
                                PredictCreated(throwsAt), 0)
         ELSE \* line 145: X.dispose(); prob.dispose?.()
              CallWithTensors("predictText", "ok", "none", PredictArgs, Predicted,
                              PredictCreated(throwsAt), 2)
    /\ UNCHANGED <<currentModel, liveModels, nextModelId, training, tokVars, prepVars,
                   modelVars, appVars>>

(***************************************************************************)
(* rnn.js: saveModel                                                       *)
(***************************************************************************)
\* lines 150-166: the saveModel call that waits for currentModel.save; art
\* is what save captures of the model that is current when it is called
SaveCall(tokenizerMeta) ==
    [op |-> "saveModel", stage |-> "save", hadModel |-> TRUE,
     args |-> [tokenizerMeta |-> tokenizerMeta], art |-> artifacts]

\* a saveModel that looks at tokenizerMeta before it looks for a model
saveModelMetaFirst(tokenizerMeta) ==
    /\ IF tokenizerMeta = Absent
         THEN /\ lastCall' = Call("saveModel", "error",
                                  "Tokenizer metadata is required for saving.",
                                  [tokenizerMeta |-> tokenizerMeta], NoRet)
              /\ UNCHANGED pending
         ELSE IF currentModel = 0
         THEN /\ lastCall' = Call("saveModel", "error", "No model to save.",
                                  [tokenizerMeta |-> tokenizerMeta], NoRet)
              /\ UNCHANGED pending
         ELSE /\ Cardinality(pending) < MaxInFlight
              /\ SaveCall(tokenizerMeta) \notin pending
              /\ lastCall' = Call("saveModel", "pending", "none",
                                  [tokenizerMeta |-> tokenizerMeta], NoRet)
              /\ pending' = pending \cup {SaveCall(tokenizerMeta)}
    /\ UNCHANGED <<currentModel, liveModels, nextModelId, training, tokVars, prepVars,
                   modelVars, pageVars>>

\* lines 150-166: the checks, then currentModel.save is called and awaited
saveModel(tokenizerMeta) ==
    /\ IF currentModel = 0
         THEN /\ lastCall' = Call("saveModel", "error", "No model to save.",
                                  [tokenizerMeta |-> tokenizerMeta], NoRet)
              /\ UNCHANGED pending
         ELSE IF tokenizerMeta = Absent
         THEN /\ lastCall' = Call("saveModel", "error",
                                  "Tokenizer metadata is required for saving.",
                                  [tokenizerMeta |-> tokenizerMeta], NoRet)
              /\ UNCHANGED pending
         ELSE /\ Cardinality(pending) < MaxInFlight
              /\ SaveCall(tokenizerMeta) \notin pending
              /\ lastCall' = Call("saveModel", "pending", "none",
                                  [tokenizerMeta |-> tokenizerMeta], NoRet)
              /\ pending' = pending \cup {SaveCall(tokenizerMeta)}
    /\ UNCHANGED <<currentModel, liveModels, nextModelId, training, tokVars, prepVars,
                   modelVars, pageVars>>

\* lines 166-198: save has settled.  saveThrows: it rejected or the download
\* failed; otherwise modelData is built from the captured artifacts, the
\* file is downloaded and modelData returned.
saveModelSaved(p, saveThrows) ==
    /\ p \in pending
    /\ p.op = "saveModel"
    /\ pending' = pending \ {p}
    /\ lastCall' =
         IF saveThrows
           THEN Ended(p, "error", "Failed to save model", NoRet, 0, 0)
         ELSE Ended(p, "ok", "none",
                    [modelData |-> ModelData(p.art, p.args.tokenizerMeta)], 0, 0)
    /\ UNCHANGED <<currentModel, liveModels, nextModelId, training, tokVars, prepVars,
                   modelVars, pageVars>>

(***************************************************************************)
(* The Tokenizer methods as operations                                     *)
(***************************************************************************)
NoTokCall == [op |-> "none", arg |-> <<>>, seqLen |-> 0, ret |-> <<>>, outcome |-> "none"]

TokCall(op, arg, seqLen, ret, outcome) ==
    [op |-> op, arg |-> arg, seqLen |-> seqLen, ret |-> ret, outcome |-> outcome]

\* the caller's arguments: a text, a corpus to fit on, a list of texts to
\* encode, a list of id sequences and a seqLen to pad to; for evaluateModel
\* and predictText the labels of the test set, the probabilities the model
\* gives its rows, the probability it gives the text, and the threshold
\* (the default 0.5)
NoInput ==
    [text |-> Str(<<>>), corpus |-> <<>>, texts |-> <<>>, seqs |-> <<>>, seqLen |-> 0,
     yTest |-> <<>>, probs |-> <<>>, prob |-> 0, threshold |-> 2]

normalize ==
    /\ tokCall' = TokCall("_normalize", input.text, 0,
                          _normalize(tokenizer.removeStopwords, input.text), "ok")
    /\ UNCHANGED <<tokenizer, input, rnnVars, prepVars, modelVars, appVars>>

\* _normalize called on the string the last _normalize returned
normalizeAgain ==
    /\ tokCall.op = "_normalize"
    /\ tokCall' = TokCall("_normalize again", Str(tokCall.ret), 0,
                          _normalize(tokenizer.removeStopwords, Str(tokCall.ret)), "ok")
    /\ UNCHANGED <<tokenizer, input, rnnVars, prepVars, modelVars, appVars>>

fitOnTexts ==
    /\ tokenizer' = Fitted(tokenizer, input.corpus)
    /\ tokCall' = TokCall("fitOnTexts", input.corpus, 0, <<>>, "ok")
    /\ UNCHANGED <<input, rnnVars, prepVars, modelVars, appVars>>

\* fitOnTexts called on a Tokenizer that is fitted already, with the list
\* input.texts
fitOnTextsAgain ==
    /\ tokenizer._fitted
    /\ tokenizer' = Fitted(tokenizer, input.texts)
    /\ tokCall' = TokCall("fitOnTexts again", input.texts, 0, <<>>, "ok")
    /\ UNCHANGED <<input, rnnVars, prepVars, modelVars, appVars>>

\* textsToSequences without the check of _fitted
textsToSequencesUnchecked ==
    /\ tokCall' = TokCall("textsToSequences", input.texts, 0,
                          [i \in 1..Len(input.texts) |->
                              EncodeText(tokenizer, input.texts[i])],
                          "ok")
    /\ UNCHANGED <<tokenizer, input, rnnVars, prepVars, modelVars, appVars>>

textsToSequences ==
    /\ tokCall' = IF ~tokenizer._fitted
                    THEN TokCall("textsToSequences", input.texts, 0, <<>>, "error")
                    ELSE TokCall("textsToSequences", input.texts, 0,
                                 [i \in 1..Len(input.texts) |->
                                     EncodeText(tokenizer, input.texts[i])],
                                 "ok")
    /\ UNCHANGED <<tokenizer, input, rnnVars, prepVars, modelVars, appVars>>

padSequences ==
    /\ tokCall' = TokCall("padSequences", input.seqs, input.seqLen,
                          PadSequences(input.seqs, input.seqLen), "ok")
    /\ UNCHANGED <<tokenizer, input, rnnVars, prepVars, modelVars, appVars>>

loadedPadSequences ==
    /\ tokCall' = TokCall("loaded padSequences", input.seqs, input.seqLen,
                          LoadedPadSequences(input.seqs, input.seqLen), "ok")
    /\ UNCHANGED <<tokenizer, input, rnnVars, prepVars, modelVars, appVars>>


(***************************************************************************)
(* app.js: the dataset object and the click handlers                       *)
(***************************************************************************)
\* app.js:59-67: the dataset object of the page before a file is loaded;
\* a field that is null holds NoTensor or Absent
NoTensor == [id |-> 0]

NoDataset ==
    [X_train |-> NoTensor, y_train |-> NoTensor, X_test |-> NoTensor, y_test |-> NoTensor,
     tokenizerMeta |-> Absent, tokenizer |-> Absent]

NoLoadedCall == [op |-> "none"]

\* yandex-scraper.js:5-8: a new YandexMapsScraper, no call made yet.
\* placeInfo and comments are the fields of the object.  The other fields
\* tell of the scrapePlaceComments call that moved last: stage is its
\* position, attempted the scraping methods it has awaited with what each
\* gave, result the method whose comments it returned, analyzed the
\* sentiment analyzePlace gave each of them.
NoScrape ==
    [stage |-> "idle", url |-> "none", attempted |-> <<>>, error |-> "none",
     result |-> "none", placeInfo |-> [null |-> TRUE], comments |-> "none",
     analyzed |-> <<>>]

\* the page and the scraper at rest
AppIdle ==
    /\ dataset = NoDataset
    /\ disposed = {}
    /\ pending = {}
    /\ loadedCall = NoLoadedCall
    /\ scrape = NoScrape

\* a call of a method of dataset.tokenizer; state is the tokenizerMeta the
\* object was built from
LoadedCall(op, outcome, arg, seqLen, ret) ==
    [op |-> op, outcome |-> outcome, arg |-> arg, seqLen |-> seqLen, ret |-> ret,
     state |-> dataset.tokenizerMeta]

\* app.js:333-341: Load Model is clicked with a file chosen; the handler
\* calls loadModel and waits for it
btnLoadModel(file) ==
    /\ file # "nofile"
    /\ loadModel(file)

\* app.js:341-400: loadModel has settled.  When it returned, the handler
\* writes dataset.tokenizerMeta and builds dataset.tokenizer from it, also
\* from a tokenizerMeta without properties; when it threw, the handler
\* reports it and leaves dataset as it is.
btnLoadModelDone(p) ==
    /\ LoadModelLoaded(p)
    /\ dataset' =
         IF p.args.file \in Loadable
           THEN [dataset EXCEPT
                   !.tokenizerMeta = JsonToMeta(p.text.tokenizerMeta),
                   !.tokenizer = LoadedTokenizer(JsonToMeta(p.text.tokenizerMeta))]
         ELSE dataset
    /\ UNCHANGED <<training, tokVars, prepVars, disposed, loadedCall, scrape>>

\* the methods of the object in dataset.tokenizer after a model was loaded,
\* called on the arguments the Tokenizer methods are called on
loadedNormalize ==
    /\ dataset.tokenizer # Absent
    /\ loadedCall' = LoadedCall("_normalize", "ok", input.text, 0,
                                LoadedNormalize(LoadedRemoveStopwords(dataset.tokenizer),
                                                input.text))
    /\ UNCHANGED <<rnnVars, tokVars, prepVars, modelVars, dataset, disposed, pending, scrape>>

loadedTextsToSequences ==
    /\ dataset.tokenizer # Absent
    /\ loadedCall' =
         IF \E i \in 1..Len(input.texts) : LoadedEncodeThrows(dataset.tokenizer, input.texts[i])
           THEN LoadedCall("textsToSequences", "TypeError", input.texts, 0, <<>>)
         ELSE LoadedCall("textsToSequences", "ok", input.texts, 0,
                         [i \in 1..Len(input.texts) |->
                             LoadedEncodeText(dataset.tokenizer, input.texts[i])])
    /\ UNCHANGED <<rnnVars, tokVars, prepVars, modelVars, dataset, disposed, pending, scrape>>

\* padSequences(sequences) with seqLen left to its default, the stored seqLen
loadedPadStored ==
    /\ dataset.tokenizer # Absent
    /\ loadedCall' =
         IF LoadedPadThrows(dataset.tokenizer, input.seqs)
           THEN LoadedCall("padSequences", "RangeError", input.seqs,
                           LoadedSeqLen(dataset.tokenizer), <<>>)
         ELSE LoadedCall("padSequences", "ok", input.seqs, LoadedSeqLen(dataset.tokenizer),
                         LoadedPadSequences(input.seqs, LoadedSeqLen(dataset.tokenizer)))
    /\ UNCHANGED <<rnnVars, tokVars, prepVars, modelVars, dataset, disposed, pending, scrape>>

\* The CSV files the user can choose: what parseCSVFile gives for them.
\* "A" holds "t a a" (1) and "A t!" (0), "B" holds "constructor 7 t" (1),
\* "tt" (0) and "a t" (1), "norows" has no valid row.
CsvFiles == {"A", "B", "norows"}

CsvTexts(file) ==
    CASE file = "A" -> <<Str(<<"t"," ","a"," ","a">>), Str(<<"A"," ","t","!">>)>>
      [] file = "B" -> <<Str(<<"c","o","n","s","t","r","u","c","t","o","r"," ","7"," ","t">>),
                         Str(<<"t","t">>), Str(<<"a"," ","t">>)>>
      [] OTHER -> <<>>

CsvLabels(file) ==
    CASE file = "A" -> <<1, 0>>
      [] file = "B" -> <<1, 0, 1>>
      [] OTHER -> <<>>

\* app.js:117: parseInt of the Sequence Length field, NaN when it is blank
SeqLenFields == {2, NaN}

\* app.js:118: parseInt of the Max Vocab field
MaxVocabField == MaxCap

\* the tensors of the dataset that are not null
DatasetTensors(d) ==
    {d[f].id : f \in {"X_train", "y_train", "X_test", "y_test"}} \ {NoTensor.id}

\* data-loader.js:181-201: what prepareTensors returns as the app keeps it.
\* The four tensors get the ids first + 1 .. first + 4 in the order they
\* are created; encodedBy names the tokenizer whose ids the rows hold.
PrepToDataset(r, seqLen, maxVocab, first) ==
    [X_train |-> [id |-> first + 1, values |-> r.xTrain,
                  encodedBy |-> [vocabSize |-> r.tokenizer.vocabSize, seqLen |-> seqLen]],
     y_train |-> [id |-> first + 2, values |-> r.yTrain],
     X_test |-> [id |-> first + 3, values |-> r.xTest,
                 encodedBy |-> [vocabSize |-> r.tokenizer.vocabSize, seqLen |-> seqLen]],
     y_test |-> [id |-> first + 4, values |-> r.yTest],
     tokenizerMeta |-> TokenizerMeta(r.tokenizer, seqLen),
     tokenizer |-> r.tokenizer]

\* app.js:104-112: Load CSV is clicked with a file chosen; the handler waits
\* for parseCSVFile
btnLoad(file) ==
    /\ Cardinality(pending) < MaxInFlight
    /\ [op |-> "parseCSVFile", file |-> file] \notin pending
    /\ pending' = pending \cup {[op |-> "parseCSVFile", file |-> file]}
    /\ UNCHANGED <<rnnVars, tokVars, prepVars, modelVars, dataset, disposed, loadedCall, scrape>>

\* app.js:112-141: parseCSVFile has returned.  Without rows the handler
\* returns.  Otherwise it disposes the tensors of the dataset (lines 122-123)
\* and calls prepareTensors, which throws in padSequences when seqLen is NaN
\* (new Array(NaN), data-loader.js:84); only when it returns is the dataset
\* replaced (line 129).
btnLoadParsed(p, seqLen) ==
    /\ p \in pending
    /\ p.op = "parseCSVFile"
    /\ pending' = pending \ {p}
    /\ IF CsvTexts(p.file) = <<>>
         THEN UNCHANGED <<dataset, disposed, tensors>>
         ELSE /\ disposed' = disposed \cup DatasetTensors(dataset)
              /\ IF seqLen = NaN
                   THEN UNCHANGED <<dataset, tensors>>
                   ELSE /\ tensors + 4 <= MaxTensors
                        /\ dataset' = PrepToDataset(
                                         Prepared(CsvTexts(p.file), CsvLabels(p.file), seqLen,
                                                  MaxVocabField, FALSE, 20),
                                         seqLen, MaxVocabField, tensors)
                        /\ tensors' = tensors + 4
    /\ UNCHANGED <<rnnVars, tokVars, texts, labels, prepCall, modelVars, loadedCall, scrape>>

\* app.js:154: parseInt of the Epochs field
EpochsField == MaxEpochs

\* a property of tokenizerMeta that createModel is handed; 0 stands for the
\* undefined of a property that is not there
MetaSize(meta, field) == IF field \in DOMAIN meta THEN meta[field] ELSE 0

\* where the handler of btnTrain can throw before it calls trainModel:
\* building the layers in createModel (rnn.js:28-57) and new Chart
\* (app.js:171)
TrainThrows == {"none", "tf.layers", "Chart"}

\* the record of the createModel call of the handler, made after its
\* disposeModel()
TrainCreateCall(outcome, error, ret) ==
    [op |-> "createModel", outcome |-> outcome, error |-> error, hadModel |-> FALSE,
     before |-> 0,
     args |-> [vocabSize |-> MetaSize(dataset.tokenizerMeta, "vocabSize"),
               seqLen |-> MetaSize(dataset.tokenizerMeta, "seqLen")],
     ret |-> ret, tensors |-> NoTensors]

\* the record of the trainModel call of the handler, made with the new model
TrainCall(outcome, error) ==
    [op |-> "trainModel", outcome |-> outcome, error |-> error, hadModel |-> TRUE,
     before |-> nextModelId,
     args |-> [X_train |-> dataset.X_train.id, y_train |-> dataset.y_train.id],
     ret |-> NoRet, tensors |-> NoTensors]

\* app.js:147-217 up to the await of line 204: Train is clicked with a
\* dataset.  disposeModel (line 159), then createModel with the sizes of
\* dataset.tokenizerMeta (lines 161-168), new Chart (line 171) and
\* trainModel, whose fit throws at once when a tensor it is given is
\* disposed and otherwise runs while the handler waits: fitEpochStart,
\* fitEpochEnd, nextFrame, fitThrows and fitReturn are its steps.  createModel
\* and new Chart are outside the try of lines 202-216: when one of them
\* throws the handler ends there.  training holds the trainModel call made
\* last.
btnTrain(throwsAt) ==
    /\ dataset.X_train # NoTensor
    /\ dataset.y_train # NoTensor
    /\ nextModelId <= MaxModels
    /\ Cardinality(pending) < MaxInFlight
    /\ IF \/ MetaSize(dataset.tokenizerMeta, "vocabSize") = 0
          \/ MetaSize(dataset.tokenizerMeta, "seqLen") = 0
         THEN /\ liveModels' = liveModels \ {currentModel}
              /\ currentModel' = 0
              /\ artifacts' = NoArtifacts
              /\ lastCall' = TrainCreateCall("error", "vocabSize and seqLen are required.",
                                             NoRet)
              /\ UNCHANGED <<nextModelId, pending, training>>
         ELSE IF throwsAt = "tf.layers"
         THEN /\ liveModels' = liveModels \ {currentModel}
              /\ currentModel' = 0
              /\ artifacts' = NoArtifacts
              /\ lastCall' = TrainCreateCall("error", "tf.layers", NoRet)
              /\ UNCHANGED <<nextModelId, pending, training>>
         ELSE /\ liveModels' = (liveModels \ {currentModel}) \cup {nextModelId}
              /\ currentModel' = nextModelId
              /\ nextModelId' = nextModelId + 1
              /\ artifacts' = Built(dataset.tokenizerMeta.vocabSize,
                                    dataset.tokenizerMeta.seqLen)
              /\ IF throwsAt = "Chart"
                   THEN /\ lastCall' = TrainCreateCall("ok", "none", [model |-> nextModelId])
                        /\ UNCHANGED <<pending, training>>
                   ELSE IF {dataset.X_train.id, dataset.y_train.id} \cap disposed # {}
                   THEN /\ lastCall' = TrainCall("error", "tf")
                        /\ training' = [stage |-> "failed", model |-> nextModelId,
                                        epochs |-> EpochsField, epoch |-> 0,
                                        log |-> << <<"throw", 0>> >>]
                        /\ UNCHANGED pending
                   ELSE /\ lastCall' = TrainCall("pending", "none")
                        /\ training' = [stage |-> "fit", model |-> nextModelId,
                                        epochs |-> EpochsField, epoch |-> 0, log |-> <<>>]
                        /\ pending' = pending \cup
                                        {[op |-> "trainModel", model |-> nextModelId,
                                          tensors |-> {dataset.X_train.id,
                                                       dataset.y_train.id}]}
    /\ UNCHANGED <<tokVars, prepVars, dataset, disposed, loadedCall, scrape>>

\* app.js:204-216: the handler of an earlier click on Train, whose model a
\* later click has disposed (line 159) and whose trainModel call training no
\* longer holds, ends: the fit it waits for has thrown or returned
btnTrainDone(p) ==
    /\ p \in pending
    /\ p.op = "trainModel"
    /\ p.model # training.model
    /\ pending' = pending \ {p}
    /\ UNCHANGED <<rnnVars, tokVars, prepVars, modelVars, pageVars>>

\* the probabilities the model gives the rows of the test set of the page:
\* 0.75 each
PageProbs(yTest) == [i \in 1..Len(yTest) |-> 3]

\* app.js:220-226 up to the await: Evaluate is clicked with a test set;
\* evaluateModel is called with the test tensors of the dataset and the
\* threshold 0.5.  Its evaluate throws when a tensor it is given is disposed.
btnEvaluate(throwsAt) ==
    /\ dataset.X_test # NoTensor
    /\ dataset.y_test # NoTensor
    /\ throwsAt \in {"none", "evaluate"}
    /\ ({dataset.X_test.id, dataset.y_test.id} \cap disposed # {}) => throwsAt = "evaluate"
    /\ EvaluateCall([yTest |-> dataset.y_test.values,
                     probs |-> PageProbs(dataset.y_test.values), threshold |-> 2],
                    {dataset.X_test.id, dataset.y_test.id}, throwsAt)
    /\ UNCHANGED <<currentModel, liveModels, nextModelId, training, tokVars, prepVars,
                   modelVars, pageVars>>

\* the row tokenizer.textsToSequences and tokenizer.padSequences of
\* rnn.js:140-141 give for a text, with the tokenizer of the dataset: the
\* Tokenizer of prepareTensors or the object built when a model was loaded
PageRow(text) ==
    IF "loaded" \in DOMAIN dataset.tokenizer
      THEN LoadedPadSequences(<<LoadedEncodeText(dataset.tokenizer, text)>>,
                              dataset.tokenizerMeta.seqLen)[1]
    ELSE PadSequences(<<EncodeText(dataset.tokenizer, text)>>,
                      dataset.tokenizerMeta.seqLen)[1]

\* The predictText call of the handler of btnPredict (app.js:303-308) and of
\* the analyzer object of btnAnalyzeYandex (app.js:421-430) on a text that is
\* not blank, with the tokenizer and the tokenizerMeta the dataset holds when
\* the call is made and the threshold 0.5; the model gives the text prob.
\* throwsAt: the call of tf that fails.
AppPredictText(text, prob, throwsAt) ==
    IF currentModel = 0
      THEN Call("predictText", "error", "Model not created or loaded.",
                [text |-> text, tokenizer |-> dataset.tokenizer,
                 tokenizerMeta |-> dataset.tokenizerMeta], NoRet)
    ELSE IF "loaded" \in DOMAIN dataset.tokenizer
            /\ LoadedEncodeThrows(dataset.tokenizer, text)
      THEN \* rnn.js:140 throws in the textsToSequences of the loaded object
           Call("predictText", "error", "TypeError",
                [text |-> text, tokenizer |-> dataset.tokenizer,
                 tokenizerMeta |-> dataset.tokenizerMeta], NoRet)
    ELSE IF "loaded" \in DOMAIN dataset.tokenizer
            /\ "seqLen" \notin DOMAIN dataset.tokenizerMeta
      THEN \* rnn.js:141 passes tokenizerMeta.seqLen, undefined, and the
           \* padSequences of the loaded object throws at its line 367
           Call("predictText", "error", "RangeError",
                [text |-> text, tokenizer |-> dataset.tokenizer,
                 tokenizerMeta |-> dataset.tokenizerMeta], NoRet)
    ELSE IF throwsAt # "none"
      THEN CallWithTensors("predictText", "error", "tf",
                           [text |-> text, tokenizer |-> dataset.tokenizer,
                            tokenizerMeta |-> dataset.tokenizerMeta], NoRet,
                           PredictCreated(throwsAt), 0)
    ELSE CallWithTensors("predictText", "ok", "none",
                         [text |-> text, tokenizer |-> dataset.tokenizer,
                          tokenizerMeta |-> dataset.tokenizerMeta],
                         [prob |-> prob, pred |-> Pred(prob, 2), forward |-> TRUE,
                          allocated |-> 2, row |-> PageRow(text)],
                         PredictCreated(throwsAt), 2)

\* "a t", typed into the text field
FreeText == Str(<<"a"," ","t">>)

\* app.js:297-315: Predict is clicked with a text in the field and a
\* tokenizer in the dataset; the model gives the text 0.75
btnPredict(throwsAt) ==
    /\ dataset.tokenizer # Absent
    /\ dataset.tokenizerMeta # Absent
    /\ lastCall' = AppPredictText(FreeText, 3, throwsAt)
    /\ UNCHANGED <<currentModel, liveModels, nextModelId, training, tokVars, prepVars,
                   modelVars, appVars>>

\* app.js:318-327 up to the await: Save is clicked; saveModel is called with
\* dataset.tokenizerMeta
btnSave ==
    /\ dataset.tokenizerMeta # Absent
    /\ saveModel(dataset.tokenizerMeta)

\* app.js:622-630: the page is about to be left; the tensors of the dataset
\* are disposed and stay in the dataset
beforeunload ==
    /\ disposed' = disposed \cup DatasetTensors(dataset)
    /\ UNCHANGED <<rnnVars, tokVars, prepVars, modelVars, dataset, pending, loadedCall,
                   scrape>>

(***************************************************************************)
(* yandex-scraper.js: scrapePlaceComments.  A URL is the list of the       *)
(* name=value pairs that new URLSearchParams(url.split('?')[1]) holds,     *)
(* decoded; a URL without a query string has none.                         *)
(***************************************************************************)
ScrapeUrls ==
    [noquery |-> <<>>,
     onlyll |-> <<(<<"ll", "37.6,55.7">>)>>,
     onlypoi |-> <<(<<"poi[uri]", "ymapsbm1://org?oid=1">>)>>,
     both |-> <<(<<"ll", "37.6,55.7">>), <<"poi[uri]", "ymapsbm1://org?oid=1">>>>,
     zfirst |-> <<(<<"z", "16">>), <<"poi[uri]", "ymapsbm1://org">>, <<"ll", "29.0,41.0">>>>,
     emptyll |-> <<(<<"ll", "">>), <<"poi[uri]", "ymapsbm1://org?oid=1">>>>,
     emptypoi |-> <<(<<"ll", "37.6,55.7">>), <<"poi[uri]", "">>>>,
     twicell |-> <<(<<"ll", "">>), <<"ll", "37.6,55.7">>,
                   <<"poi[uri]", "ymapsbm1://org?oid=1">>>>,
     other |-> <<(<<"poi[uri]", "ymapsbm1://org?oid=1">>), <<"ll", "29.0,41.0">>>>]

\* urlParams.get(name): the value of the first pair with the name, in a
\* list of one element, and the empty list for null
UrlGet(params, name) ==
    LET hits == SelectSeq(params, LAMBDA pr : pr[1] = name)
    IN IF hits = <<>> THEN <<>> ELSE <<hits[1][2]>>

\* !v for what get returned: null or the empty string
NotGiven(got) == got = <<>> \/ got[1] = ""

\* line 26: ll.split(',').map(Number), a number written as JavaScript
\* prints it
Coordinates(ll) ==
    CASE ll = "37.6,55.7" -> [lat |-> "55.7", lng |-> "37.6"]
      [] ll = "29.0,41.0" -> [lat |-> "41", lng |-> "29"]

\* lines 29 and 110: poiUri.split('oid=')[1], undefined for a value without
\* oid=
PlaceId(poiUri) == IF poiUri = "ymapsbm1://org?oid=1" THEN "1" ELSE "undefined"

\* lines 31-35
PlaceInfo(u) ==
    [coordinates |-> Coordinates(UrlGet(ScrapeUrls[u], "ll")[1]),
     placeId |-> PlaceId(UrlGet(ScrapeUrls[u], "poi[uri]")[1]),
     url |-> u]

\* a scrapePlaceComments call that waits for the scraping method stage
ScrapeCall(stage, u, attempted) ==
    [op |-> "scrapePlaceComments", stage |-> stage, url |-> u, attempted |-> attempted]

\* the methods the call p has awaited when the one it waits for ends
Tried(p, out) == Append(p.attempted, <<p.stage, out>>)

\* lines 14-39: scrapePlaceComments is called; it throws for a URL without
\* ll or poi[uri] (lines 21-23), otherwise it sets placeInfo and awaits
\* scrapeRealComments, which awaits fetchFromYandexAPI first.  That method
\* throws before it fetches anything when the value of poi[uri] has no oid=
\* (lines 110-114), and the call waits for parsePageContent.
scrapePlaceComments(u) ==
    /\ IF NotGiven(UrlGet(ScrapeUrls[u], "ll")) \/ NotGiven(UrlGet(ScrapeUrls[u], "poi[uri]"))
         THEN /\ scrape' = [scrape EXCEPT !.stage = "thrown", !.url = u, !.attempted = <<>>,
                                          !.error = "Invalid Yandex Maps URL format",
                                          !.result = "none", !.analyzed = <<>>]
              /\ UNCHANGED pending
         ELSE LET p == IF PlaceInfo(u).placeId = "undefined"
                         THEN ScrapeCall("page", u, <<(<<"api", "throws">>)>>)
                         ELSE ScrapeCall("api", u, <<>>)
              IN /\ Cardinality(pending) < MaxInFlight
                 /\ p \notin pending
                 /\ pending' = pending \cup {p}
                 /\ scrape' = [scrape EXCEPT !.stage = p.stage, !.url = u,
                                             !.attempted = p.attempted, !.error = "none",
                                             !.result = "none", !.analyzed = <<>>,
                                             !.placeInfo = PlaceInfo(u)]
    /\ UNCHANGED <<rnnVars, tokVars, prepVars, modelVars, dataset, disposed, loadedCall>>

\* What a scraping method can give.  fetchFromYandexAPI throws or returns an
\* empty list: for an answer with a review, parseAPIReviews calls
\* this.detectLanguage (line 467), which the class does not have, and the
\* TypeError ends the endpoint (line 180) and, after the last one, the
\* method (line 185).
ApiOutcomes == {"throws", "empty"}

\* parsePageContent throws: parseReviewElement returns null for every
\* element (the TypeError of line 390 is caught in line 393), and the
\* promise is rejected without reviews (line 226), without a document, on an
\* error and on the timeout
PageOutcomes == {"throws"}

\* fetchViaProxy returns the reviews of the proxy server or throws (lines
\* 427-434)
ProxyOutcomes == {"throws", "comments"}

\* the call p waits for the next method
ScrapeNext(p, out, stage) ==
    /\ ScrapeCall(stage, p.url, Tried(p, out)) \notin pending
    /\ pending' = (pending \ {p}) \cup {ScrapeCall(stage, p.url, Tried(p, out))}
    /\ scrape' = [scrape EXCEPT !.stage = stage, !.url = p.url, !.attempted = Tried(p, out),
                                !.error = "none", !.result = "none", !.analyzed = <<>>]

\* lines 41-51: the call p returns the comments of result, which it has
\* written to this.comments
Scraped(p, out, result) ==
    [scrape EXCEPT !.stage = "returned", !.url = p.url, !.attempted = Tried(p, out),
                   !.error = "none", !.result = result, !.comments = result,
                   !.analyzed = <<>>]

\* a step of scrapeRealComments that returns whatever the API method
\* returned
scrapeApiAnyList(p, out) ==
    /\ p \in pending
    /\ p.op = "scrapePlaceComments"
    /\ p.stage = "api"
    /\ IF out # "throws"
         THEN /\ pending' = pending \ {p}
              /\ scrape' = Scraped(p, out, "api")
         ELSE ScrapeNext(p, out, "page")
    /\ UNCHANGED <<rnnVars, tokVars, prepVars, modelVars, dataset, disposed, loadedCall>>

\* lines 66-74: fetchFromYandexAPI ends
scrapeApi(p, out) ==
    /\ p \in pending
    /\ p.op = "scrapePlaceComments"
    /\ p.stage = "api"
    /\ IF out = "comments"
         THEN /\ pending' = pending \ {p}
              /\ scrape' = Scraped(p, out, "api")
         ELSE ScrapeNext(p, out, "page")
    /\ UNCHANGED <<rnnVars, tokVars, prepVars, modelVars, dataset, disposed, loadedCall>>

\* lines 76-84: parsePageContent ends
scrapePage(p, out) ==
    /\ p \in pending
    /\ p.op = "scrapePlaceComments"
    /\ p.stage = "page"
    /\ IF out = "comments"
         THEN /\ pending' = pending \ {p}
              /\ scrape' = Scraped(p, out, "page")
         ELSE ScrapeNext(p, out, "proxy")
    /\ UNCHANGED <<rnnVars, tokVars, prepVars, modelVars, dataset, disposed, loadedCall>>

\* the comments scrapePlaceComments returns when fetchViaProxy ends: those
\* of the proxy, or the sample comments, as scrapeRealComments throws
\* without them (line 97) and simulateScrapedComments takes its place
\* (lines 43-46)
ProxyResult(out) == IF out = "comments" THEN "proxy" ELSE "simulated"

\* lines 86-97 and 41-51: fetchViaProxy ends and scrapePlaceComments returns
scrapeProxy(p, out) ==
    /\ p \in pending
    /\ p.op = "scrapePlaceComments"
    /\ p.stage = "proxy"
    /\ pending' = pending \ {p}
    /\ scrape' = Scraped(p, out, ProxyResult(out))
    /\ UNCHANGED <<rnnVars, tokVars, prepVars, modelVars, dataset, disposed, loadedCall>>

(***************************************************************************)
(* yandex-scraper.js: analyzePlace, called by the handler of              *)
(* btnAnalyzeYandex.  A comment is its text and its language; the text of  *)
(* a sample comment is written as its name.                                *)
(***************************************************************************)
\* "tt", the one review the proxy server returns
CommentText == Str(<<"t","t">>)

\* lines 477-534: the sample comments of simulateScrapedComments
SampleComments ==
    <<[text |-> "ru1", language |-> "ru"], [text |-> "ru2", language |-> "ru"],
      [text |-> "ru3", language |-> "ru"], [text |-> "ru4", language |-> "ru"],
      [text |-> "ru5", language |-> "ru"], [text |-> "tr1", language |-> "tr"],
      [text |-> "tr2", language |-> "tr"], [text |-> "tr3", language |-> "tr"]>>

\* the comments a call has returned
Comments(result) ==
    IF result = "simulated" THEN SampleComments
    ELSE <<[text |-> CommentText, language |-> "en"]>>

\* lines 572-578 and 586-590: the tables of translateRussianToEnglish and
\* translateTurkishToEnglish
Translations ==
    [ru1 |->
        Str(<<"G","r","e","a","t"," ","p","l","a","c","e","!"," ","V","e","r","y"," ","t","a",
              "s","t","y"," ","f","o","o","d"," ","a","n","d"," ","p","l","e","a","s","a","n",
              "t"," ","a","t","m","o","s","p","h","e","r","e",".">>),
     ru2 |->
        Str(<<"G","o","o","d"," ","r","e","s","t","a","u","r","a","n","t",","," ","b","u","t",
              " ","s","e","r","v","i","c","e"," ","i","s"," ","s","l","o","w","."," ","F","o",
              "o","d"," ","i","s"," ","q","u","a","l","i","t","y",".">>),
     ru3 |->
        Str(<<"T","e","r","r","i","b","l","e"," ","s","e","r","v","i","c","e","!"," ","W","e",
              " ","w","a","i","t","e","d"," ","f","o","r"," ","t","h","e"," ","o","r","d","e",
              "r"," ","f","o","r"," ","m","o","r","e"," ","t","h","a","n"," ","a","n"," ","h",
              "o","u","r",".">>),
     ru4 |->
        Str(<<"E","x","c","e","l","l","e","n","t"," ","c","u","i","s","i","n","e"," ","a","n",
              "d"," ","g","r","e","a","t"," ","w","i","n","e","."," ","I"," ","r","e","c","o",
              "m","m","e","n","d","!">>),
     ru5 |->
        Str(<<"P","r","i","c","e","s"," ","a","r","e"," ","i","n","f","l","a","t","e","d",",",
              " ","b","u","t"," ","f","o","o","d"," ","i","s"," ","n","o","t"," ","b","a","d",
              "."," ","I","n","t","e","r","i","o","r"," ","i","s"," ","b","e","a","u","t","i",
              "f","u","l",".">>),
     tr1 |->
        Str(<<"V","e","r","y"," ","n","i","c","e"," ","p","l","a","c","e","!"," ","F","o","o",
              "d"," ","i","s"," ","g","r","e","a","t"," ","a","n","d"," ","s","t","a","f","f",
              " ","i","s"," ","v","e","r","y"," ","k","i","n","d",".">>),
     tr2 |->
        Str(<<"P","r","i","c","e","s"," ","a","r","e"," ","a"," ","b","i","t"," ","h","i","g",
              "h"," ","b","u","t"," ","q","u","a","l","i","t","y"," ","i","s"," ","g","o","o",
              "d","."," ","I"," ","r","e","c","o","m","m","e","n","d",".">>),
     tr3 |->
        Str(<<"S","e","r","v","i","c","e"," ","i","s"," ","v","e","r","y"," ","s","l","o","w",
              " ","a","n","d"," ","f","o","o","d"," ","c","a","m","e"," ","c","o","l","d",".",
              " ","I"," ","w","a","s"," ","n","o","t"," ","s","a","t","i","s","f","i","e","d",
              ".">>)]

\* lines 547-554 and 600-603: the text predictText is handed for a comment;
\* a text the table does not hold stays as it is
TranslatedText(comment) ==
    IF comment.language \in {"ru", "tr"}
      THEN IF comment.text \in DOMAIN Translations THEN Translations[comment.text]
           ELSE comment.text
    ELSE comment.text

\* lines 617-639: the sentiment of a comment whose predictText gave pred, or
\* threw
Sentiment(call) ==
    IF call.outcome # "ok" THEN "unknown"
    ELSE IF call.ret.pred = 1 THEN "positive" ELSE "negative"

\* app.js:404-433: Analyze is clicked.  With a blank URL field or without a
\* tokenizer in the dataset the handler returns after an alert.  Otherwise
\* it calls analyzePlace, which calls scrapePlaceComments: when that throws,
\* the handler reports it (lines 438-441), otherwise it waits.
btnAnalyzeYandex(u) ==
    IF u = "blank" \/ dataset.tokenizer = Absent \/ dataset.tokenizerMeta = Absent
      THEN UNCHANGED vars
    ELSE scrapePlaceComments(u)

\* yandex-scraper.js:86-97, 41-51 and 697-717, app.js:433-436: fetchViaProxy
\* ends, scrapePlaceComments returns, and analyzePlace translates the
\* comments and calls predictText of the analyzer object on each of them,
\* with the tokenizer the dataset holds now.  A call that throws is caught
\* (lines 629-637).  The model gives every comment 0.25; lastCall is the
\* call made last.
analyzePlace(p, out, throwsAt) ==
    /\ p \in pending
    /\ p.op = "scrapePlaceComments"
    /\ p.stage = "proxy"
    /\ pending' = pending \ {p}
    /\ LET comments == Comments(ProxyResult(out))
           calls == [i \in 1..Len(comments) |->
                       AppPredictText(TranslatedText(comments[i]), 1, throwsAt)]
       IN /\ scrape' = [Scraped(p, out, ProxyResult(out)) EXCEPT
                           !.analyzed = [i \in 1..Len(calls) |-> Sentiment(calls[i])]]
          /\ lastCall' = calls[Len(calls)]
    /\ UNCHANGED <<currentModel, liveModels, nextModelId, training, tokVars, prepVars,
                   modelVars, dataset, disposed, loadedCall>>

(***************************************************************************)
(* _normalize on every text of up to MaxChars characters                   *)
(***************************************************************************)
NormChars == {"a", "t", "A", "7", "'", " ", "\t", "!"}

NormInputs ==
    {Str(s) : s \in UNION {[1..k -> NormChars] : k \in 0..MaxChars}} \cup NonStrings

RnnInit ==
    /\ currentModel = 0
    /\ liveModels = {}
    /\ nextModelId = 1
    /\ lastCall = NoCall
    /\ training = NoTraining
    /\ artifacts = NoArtifacts

PrepIdle ==
    /\ texts = <<>>
    /\ labels = <<>>
    /\ tensors = 0
    /\ prepCall = NoPrepCall

TokIdle ==
    /\ tokenizer = NewTokenizer(DefaultNumWords, FALSE)
    /\ tokCall = NoTokCall
    /\ input = NoInput

InitNorm ==
    /\ RnnInit
    /\ AppIdle
    /\ PrepIdle
    /\ \E flag \in BOOLEAN : tokenizer = NewTokenizer(DefaultNumWords, flag)
    /\ tokCall = NoTokCall
    /\ \E t \in NormInputs : input = [NoInput EXCEPT !.text = t]

NextNorm ==
    \/ normalize
    \/ normalizeAgain

SpecNorm == InitNorm /\ [][NextNorm]_vars

(***************************************************************************)
(* padSequences on every list of rows within the bounds                    *)
(***************************************************************************)
\* the ids of the rows: OOV and the id of the most frequent word
PadIds == {1, 2}

PadRows == UNION {[1..k -> PadIds] : k \in 0..MaxRowLen}

PadInputs == UNION {[1..n -> PadRows] : n \in 0..MaxPadRows}

InitPad ==
    /\ RnnInit
    /\ AppIdle
    /\ PrepIdle
    /\ tokenizer = NewTokenizer(DefaultNumWords, FALSE)
    /\ tokCall = NoTokCall
    /\ \E seqs \in PadInputs, n \in 0..MaxSeqLen :
          input = [NoInput EXCEPT !.seqs = seqs, !.seqLen = n]

NextPad ==
    \/ padSequences
    \/ loadedPadSequences

SpecPad == InitPad /\ [][NextPad]_vars

(***************************************************************************)
(* fitOnTexts and textsToSequences on a new Tokenizer                      *)
(***************************************************************************)
\* "t a a", "A t!", "constructor 7 t", " ! " and a value that is no string
CorpusTexts ==
    {Str(<<"t"," ","a"," ","a">>),
     Str(<<"A"," ","t","!">>),
     Str(<<"c","o","n","s","t","r","u","c","t","o","r"," ","7"," ","t">>),
     Str(<<" ","!"," ">>),
     [kind |-> "undefined", s |-> <<>>]}

\* three texts with ten distinct words, none of them a stop word:
\* "t 7 constructor ta tt", "aa 'a 7a t7 77", "t t 7"
TenWordCorpus ==
    <<Str(<<"t"," ","7"," ","c","o","n","s","t","r","u","c","t","o","r"," ","t","a"," ","t","t">>),
      Str(<<"a","a"," ","'","a"," ","7","a"," ","t","7"," ","7","7">>),
      Str(<<"t"," ","t"," ","7">>)>>

Corpora == UNION {[1..n -> CorpusTexts] : n \in 0..MaxCorpus} \cup {TenWordCorpus}

\* "constructor t", "a t", "T! 7", "tt", " \t" and a value that is no string
EncTexts ==
    {Str(<<"c","o","n","s","t","r","u","c","t","o","r"," ","t">>),
     Str(<<"a"," ","t">>),
     Str(<<"T","!"," ","7">>),
     Str(<<"t","t">>),
     Str(<<" ","\t">>),
     [kind |-> "number", s |-> <<>>]}

EncInputs == UNION {[1..n -> EncTexts] : n \in 0..MaxEnc}

InitTok ==
    /\ RnnInit
    /\ AppIdle
    /\ PrepIdle
    /\ \E cap \in 0..MaxCap, flag \in BOOLEAN : tokenizer = NewTokenizer(cap, flag)
    /\ tokCall = NoTokCall
    /\ \E c \in Corpora, e \in EncInputs :
          input = [NoInput EXCEPT !.corpus = c, !.texts = e]

\* the canonical flow fits a tokenizer once
NextTok ==
    \/ (~tokenizer._fitted /\ fitOnTexts)
    \/ textsToSequences

SpecTok == InitTok /\ [][NextTok]_vars

(***************************************************************************)
(* fitOnTexts called more than once on one Tokenizer                       *)
(***************************************************************************)
InitRefit ==
    /\ RnnInit
    /\ AppIdle
    /\ PrepIdle
    /\ \E flag \in BOOLEAN : tokenizer = NewTokenizer(MaxCap, flag)
    /\ tokCall = NoTokCall
    /\ \E c \in Corpora, e \in EncInputs :
          input = [NoInput EXCEPT !.corpus = c, !.texts = e]

NextRefit ==
    \/ (~tokenizer._fitted /\ fitOnTexts)
    \/ fitOnTextsAgain
    \/ textsToSequences

SpecRefit == InitRefit /\ [][NextRefit]_vars

(***************************************************************************)
(* prepareTensors on the arrays a caller holds                             *)
(***************************************************************************)
\* "t a", "A!" and "7"
PrepTexts ==
    {Str(<<"t"," ","a">>),
     Str(<<"A","!">>),
     Str(<<"7">>)}

\* the testSplit values of the calls, in hundredths: 0, the 0.2 that app.js
\* passes, 0.5 and 1
TestSplits == {0, 20, 50, 100}

InitPrep ==
    /\ RnnInit
    /\ AppIdle
    /\ TokIdle
    /\ texts \in UNION {[1..n -> PrepTexts] : n \in 0..MaxRows}
    /\ labels \in UNION {[1..n -> {0, 1}] : n \in 0..MaxRows}
    /\ tensors = 0
    /\ prepCall = NoPrepCall

\* removeStopwords and testSplit of the calls: every testSplit without
\* stop-word removal, and the testSplit of app.js with it
PrepOptions == {<<FALSE, ts>> : ts \in TestSplits} \cup {<<TRUE, 20>>}

\* which of the two arrays a call passes: both, or one of them
PrepPassed == {<<TRUE, TRUE>>, <<FALSE, TRUE>>, <<TRUE, FALSE>>}

NextPrep ==
    \E pass \in PrepPassed, opt \in PrepOptions :
        prepareTensors(pass[1], pass[2], MaxSeqLen, MaxCap, opt[1], opt[2])

SpecPrep == InitPrep /\ [][NextPrep]_vars

(***************************************************************************)
(* Claims                                                                  *)
(***************************************************************************)

\* the first n entries of row are the first n entries of s, the rest are 0
IsPadded(row, s, seqLen) ==
    /\ Len(row) = seqLen
    /\ \A k \in 1..seqLen :
          row[k] = IF k <= Len(s) THEN s[k] ELSE 0

\* C3: for every seqLen >= 1 and every id sequence s, padSequences returns a
\* row of length exactly seqLen that starts with the first min(len(s), seqLen)
\* ids of s in order and is 0 (PAD) behind them, for the Tokenizer class and
\* for the tokenizer object rebuilt when a model is loaded.
C3_PadShape ==
    (tokCall.op \in {"padSequences", "loaded padSequences"} /\ tokCall.seqLen >= 1)
        => /\ Len(tokCall.ret) = Len(tokCall.arg)
           /\ \A i \in 1..Len(tokCall.arg) :
                 IsPadded(tokCall.ret[i], tokCall.arg[i], tokCall.seqLen)

\* a row longer than seqLen was truncated and a shorter one was padded, by
\* the class and by the loaded object
C3_Witness ==
    /\ tokCall.op = "loaded padSequences"
    /\ tokCall.seqLen = 2
    /\ Len(tokCall.arg) = 2
    /\ Len(tokCall.arg[1]) = 3
    /\ Len(tokCall.arg[2]) = 1
    /\ tokCall.ret[2] = <<tokCall.arg[2][1], 0>>

\* C7: _normalize is idempotent for every input string and both settings of
\* removeStopwords, and a non-string or empty input yields the empty string
\* rather than an error.
C7_NormalizeIdempotent ==
    /\ tokCall.op = "_normalize again" => tokCall.ret = tokCall.arg.s
    /\ (tokCall.op = "_normalize" /\ (tokCall.arg.kind # "string" \/ tokCall.arg.s = <<>>))
          => (tokCall.ret = <<>> /\ tokCall.outcome = "ok")

\* "A!t " was normalized with removeStopwords on, and the result "t" was
\* normalized again
C7_Witness ==
    /\ tokCall.op = "_normalize again"
    /\ tokenizer.removeStopwords
    /\ input.text = Str(<<"A", "!", "t", " ">>)
    /\ tokCall.arg = Str(<<"t">>)
    /\ tokCall.ret = <<"t">>

\* the words of a text: the non-empty pieces between the spaces of its
\* normalized form
WordsOf(removeStopwords, t) ==
    SelectSeq(Split(_normalize(removeStopwords, t)), LAMBDA w : w # <<>>)

\* the words fitOnTexts gave an id
Assigned(tk) == DOMAIN tk.wordIndex \ {PadKey, OovKey}

\* C4: after fit, textsToSequences maps every text to the ids of its
\* normalized words in order, the fitted integer id for a word of the
\* vocabulary and the integer 1 (OOV) for every other word; a text that
\* normalizes to the empty string yields the empty sequence in a row of its
\* own (all PAD once padded), so the rows are as many as the texts.
C4_EncodeIds ==
    (tokCall.op = "textsToSequences" /\ tokCall.outcome = "ok")
        => /\ Len(tokCall.ret) = Len(tokCall.arg)
           /\ \A i \in 1..Len(tokCall.arg) :
                LET words == WordsOf(tokenizer.removeStopwords, tokCall.arg[i])
                IN /\ Len(tokCall.ret[i]) = Len(words)
                   /\ \A k \in 1..Len(words) :
                        tokCall.ret[i][k] =
                            IF words[k] \in Assigned(tokenizer)
                              THEN tokenizer.wordIndex[words[k]]
                              ELSE 1
                   /\ words = <<>> =>
                        \A n \in 1..MaxSeqLen :
                            PadRow(tokCall.ret[i], n) = [k \in 1..n |-> 0]

\* the ids fitOnTexts handed out, read from indexWord
AssignedIds(tk) == DOMAIN tk.indexWord \ {0, 1}

DistinctWords(removeStopwords, list) ==
    LET tokens == CorpusTokens(removeStopwords, list)
    IN {tokens[k] : k \in 1..Len(tokens)}

\* C5 as stated: after fitOnTexts on a fresh Tokenizer, vocabSize is 2 plus
\* the number of assigned tokens and never exceeds the cap numWords, for
\* every cap and every corpus; a cap of 5 with 10 distinct tokens gives 5.
C5_VocabSizeWithinCap ==
    tokCall.op = "fitOnTexts"
        => /\ tokenizer.vocabSize = 2 + Cardinality(AssignedIds(tokenizer))
           /\ tokenizer.vocabSize <= tokenizer.numWords
           /\ (tokenizer.numWords = 5
                 /\ Cardinality(DistinctWords(tokenizer.removeStopwords, tokCall.arg)) = 10)
                => tokenizer.vocabSize = 5

\* C5 amended: after fitOnTexts on a fresh Tokenizer, vocabSize is 2 plus the
\* number of assigned tokens and never exceeds the larger of the cap and 2
\* (the two reserved ids are always there); a cap of 5 with 10 distinct
\* tokens gives 5.
C5_VocabSizeWithinCapOrTwo ==
    tokCall.op = "fitOnTexts"
        => /\ tokenizer.vocabSize = 2 + Cardinality(AssignedIds(tokenizer))
           /\ tokenizer.vocabSize <= (IF tokenizer.numWords > 2 THEN tokenizer.numWords ELSE 2)
           /\ (tokenizer.numWords = 5
                 /\ Cardinality(DistinctWords(tokenizer.removeStopwords, tokCall.arg)) = 10)
                => tokenizer.vocabSize = 5

\* a cap of 5 was applied to the corpus of ten distinct words
C5_Witness ==
    /\ tokCall.op = "fitOnTexts"
    /\ tokenizer.numWords = 5
    /\ Cardinality(DistinctWords(tokenizer.removeStopwords, tokCall.arg)) = 10
    /\ tokenizer.vocabSize = 5

\* C6: after fitOnTexts on a fresh Tokenizer the non-reserved ids are exactly
\* 2..vocabSize-1, handed out by descending corpus frequency with ties going
\* to the word seen first, and no word left out is more frequent than a word
\* that got an id.
C6_IdsByFrequency ==
    tokCall.op = "fitOnTexts"
        => LET tokens == CorpusTokens(tokenizer.removeStopwords, tokCall.arg)
               Freq(w) == Cardinality({k \in 1..Len(tokens) : tokens[k] = w})
               First(w) == SetMin({k \in 1..Len(tokens) : tokens[k] = w})
               wi == tokenizer.wordIndex
               assigned == Assigned(tokenizer)
           IN /\ {wi[w] : w \in assigned} = 2..(tokenizer.vocabSize - 1)
              /\ Cardinality(assigned) = tokenizer.vocabSize - 2
              /\ assigned \subseteq {tokens[k] : k \in 1..Len(tokens)}
              /\ \A u \in assigned, v \in assigned :
                    wi[u] < wi[v]
                      => \/ Freq(u) > Freq(v)
                         \/ (Freq(u) = Freq(v) /\ First(u) < First(v))
              /\ \A u \in {tokens[k] : k \in 1..Len(tokens)} \ assigned, v \in assigned :
                    Freq(u) <= Freq(v)

\* "t a a" then "constructor 7 t" with a cap of 5: t and a tie at 2 and t was
\* seen first, constructor and 7 tie at 1 and only constructor gets an id
C6_Witness ==
    /\ tokCall.op = "fitOnTexts"
    /\ tokenizer.numWords = 5
    /\ ~tokenizer.removeStopwords
    /\ Assigned(tokenizer) = {<<"t">>, <<"a">>, <<"c","o","n","s","t","r","u","c","t","o","r">>}
    /\ tokenizer.wordIndex[<<"t">>] = 2
    /\ tokenizer.wordIndex[<<"a">>] = 3
    /\ tokenizer.wordIndex[<<"c","o","n","s","t","r","u","c","t","o","r">>] = 4
    /\ <<"7">> \in DistinctWords(FALSE, tokCall.arg)

\* C8: textsToSequences fails for every input, the empty list included, on a
\* Tokenizer that was never fitted, and succeeds for every input once
\* fitOnTexts has been called.
C8_EncodeNeedsFit ==
    tokCall.op = "textsToSequences"
        => /\ ~tokenizer._fitted => tokCall.outcome = "error"
           /\ tokenizer._fitted => tokCall.outcome = "ok"

\* the empty list was refused by a tokenizer that was not fitted
C8_Witness ==
    /\ tokCall.op = "textsToSequences"
    /\ tokCall.arg = <<>>
    /\ ~tokenizer._fitted
    /\ tokCall.outcome = "error"

\* C1: after any sequence of createModel, loadModel and disposeModel calls at
\* most one model is live (constructed and not yet disposed): when a new
\* model becomes the current one, the model that was current before has been
\* disposed.
C1_SingleLiveModel ==
    /\ Cardinality(liveModels) <= 1
    /\ liveModels \subseteq {currentModel}

ModelOps == {"trainModel", "evaluateModel", "predictText"}

\* C2: trainModel, evaluateModel and predictText fail, for any arguments (an
\* empty text for predictText included), whenever no model is live: from the
\* start and from every disposeModel until the next createModel or loadModel
\* that succeeds.
C2_NoModelFails ==
    [][/\ (/\ lastCall'.op \in ModelOps
           /\ currentModel = 0
           /\ lastCall' # lastCall
           /\ pending \subseteq pending')
            => lastCall'.outcome = "error"
       /\ (lastCall'.op \in ModelOps /\ ~lastCall'.hadModel)
            => lastCall'.outcome = "error"
       /\ (lastCall'.op = "disposeModel" /\ lastCall' # lastCall) => currentModel' = 0
       /\ (currentModel = 0 /\ currentModel' # 0)
            => (lastCall'.op \in {"createModel", "loadModel"} /\ lastCall'.outcome = "ok")
      ]_vars

\* predictText was refused after a model had been created and disposed
C2_Witness ==
    /\ lastCall.op = "predictText"
    /\ lastCall.outcome = "error"
    /\ ~lastCall.hadModel
    /\ currentModel = 0
    /\ nextModelId > 1
    /\ liveModels = {}

\* the inputs prepareTensors refuses
PrepInvalid(c) ==
    \/ ~c.passTexts \/ ~c.passLabels
    \/ c.before.texts = <<>> \/ c.before.labels = <<>>
    \/ Len(c.before.texts) # Len(c.before.labels)

\* C9: prepareTensors fails when texts or labels is missing or empty or when
\* their lengths differ, and then it has not reordered or changed the
\* caller's texts and labels arrays and has created no tensors.
C9_PrepValidates ==
    (prepCall.op = "prepareTensors" /\ PrepInvalid(prepCall))
        => /\ prepCall.outcome = "error"
           /\ texts = prepCall.before.texts
           /\ labels = prepCall.before.labels
           /\ tensors = prepCall.before.tensors

\* arrays of lengths 3 and 2 were refused
C9_Witness ==
    /\ prepCall.op = "prepareTensors"
    /\ prepCall.passTexts /\ prepCall.passLabels
    /\ Len(prepCall.before.texts) = 3
    /\ Len(prepCall.before.labels) = 2
    /\ prepCall.outcome = "error"
    /\ Len(texts) = 3

\* the permutations of 1..n
Perms(n) == {p \in [1..n -> 1..n] : \A i \in 1..n, j \in 1..n : p[i] = p[j] => i = j}

\* C10: the shuffle of prepareTensors moves texts and labels in lock-step:
\* afterwards the arrays hold a permutation of the original (text, label)
\* pairs, and row i of the padded samples and label i of the train/test
\* outputs belong to the same original sample.
C10_ShuffleLockStep ==
    (prepCall.op = "prepareTensors" /\ prepCall.outcome = "ok")
        => LET b == prepCall.before
               r == prepCall.ret
               rows == r.xTrain \o r.xTest
               ys == r.yTrain \o r.yTest
               n == Len(b.texts)
           IN /\ Len(texts) = n /\ Len(labels) = n /\ Len(rows) = n /\ Len(ys) = n
              /\ \E p \in Perms(n) :
                    \A i \in 1..n :
                        /\ texts[i] = b.texts[p[i]]
                        /\ labels[i] = b.labels[p[i]]
                        /\ rows[i] = PadRow(EncodeText(r.tokenizer, b.texts[p[i]]),
                                            prepCall.seqLen)
                        /\ ys[i] = b.labels[p[i]]

\* three different texts with labels 0, 1, 1 were moved
C10_Witness ==
    /\ prepCall.op = "prepareTensors"
    /\ prepCall.outcome = "ok"
    /\ Len(texts) = 3
    /\ Cardinality({texts[i] : i \in 1..3}) = 3
    /\ prepCall.before.labels = <<0, 1, 1>>
    /\ labels # prepCall.before.labels
    /\ texts # prepCall.before.texts

\* the arguments of a call besides the arrays
PrepArgs(c) == <<c.passTexts, c.passLabels, c.seqLen, c.maxVocab, c.removeStopwords, c.testSplit>>

\* C11: prepareTensors called again with the same texts and labels arrays and
\* the same other arguments returns what the call before returned: the same
\* shuffled order, the same train/test partition and the same fitted
\* vocabulary.
C11_ShuffleDeterminism ==
    [][(/\ prepCall.op = "prepareTensors" /\ prepCall.outcome = "ok"
        /\ prepCall'.outcome = "ok" /\ prepCall' # prepCall
        /\ PrepArgs(prepCall') = PrepArgs(prepCall))
          => prepCall'.ret = prepCall.ret
      ]_vars

\* C12: for N >= 1 rows and 0 <= testSplit <= 1 prepareTensors reports
\* nTest = max(1, floor(N * testSplit)), nTrain = N - nTest and N; the training
\* rows and labels are those of the first nTrain shuffled samples and the test
\* rows and labels those of the remaining samples, so the two partitions are
\* disjoint, cover all N rows and have the reported sizes; 100 rows with
\* testSplit 0.2 give 80 and 20.
C12_SplitCounts ==
    /\ SplitCounts(100, 20) = [nTrain |-> 80, nTest |-> 20, N |-> 100]
    /\ (prepCall.op = "prepareTensors" /\ prepCall.outcome = "ok")
        => LET r == prepCall.ret
               c == r.counts
               N == Len(prepCall.before.texts)
               floorN == (N * prepCall.testSplit) \div 100
               Row(i) == PadRow(EncodeText(r.tokenizer, r.texts[i]), prepCall.seqLen)
           IN /\ c.N = N
              /\ c.nTest = (IF floorN >= 1 THEN floorN ELSE 1)
              /\ c.nTrain = N - c.nTest
              /\ c.nTrain >= 0
              /\ Len(r.xTrain) = c.nTrain /\ Len(r.yTrain) = c.nTrain
              /\ Len(r.xTest) = c.nTest /\ Len(r.yTest) = c.nTest
              /\ \A i \in 1..c.nTrain :
                    r.xTrain[i] = Row(i) /\ r.yTrain[i] = r.labels[i]
              /\ \A i \in 1..c.nTest :
                    r.xTest[i] = Row(c.nTrain + i) /\ r.yTest[i] = r.labels[c.nTrain + i]

\* three samples with different rows were split 2 to 1 with testSplit 0.2,
\* where floor(N * testSplit) is 0
C12_Witness ==
    /\ prepCall.op = "prepareTensors"
    /\ prepCall.outcome = "ok"
    /\ prepCall.testSplit = 20
    /\ prepCall.ret.counts = [nTrain |-> 2, nTest |-> 1, N |-> 3]
    /\ Len(prepCall.ret.xTrain) = 2
    /\ prepCall.ret.xTrain[1] # prepCall.ret.xTrain[2]
    /\ prepCall.ret.xTest[1] \notin {prepCall.ret.xTrain[1], prepCall.ret.xTrain[2]}

\* the arguments the callers of rnn.js hold
\* two test rows with labels 1 and 0 that the model gives 0.75 and 0.5, the
\* text given 0.75, seqLen 2
SampleInput ==
    [NoInput EXCEPT !.seqLen = 2, !.yTest = <<1, 0>>, !.probs = <<3, 2>>, !.prob = 3]

\* "", "a t"
SampleTexts == {Str(<<>>), Str(<<"a"," ","t">>)}

\* C13: createModel fails with the configuration error whenever vocabSize or
\* seqLen is missing, zero or negative, and installs a new current model only
\* when both are positive.
C13_CreateValidates ==
    lastCall.op = "createModel"
        => /\ (lastCall.args.vocabSize <= 0 \/ lastCall.args.seqLen <= 0)
                => (/\ lastCall.outcome = "error"
                    /\ lastCall.error = "vocabSize and seqLen are required.")
           /\ lastCall.outcome = "ok"
                => (/\ lastCall.args.vocabSize > 0
                    /\ lastCall.args.seqLen > 0
                    /\ currentModel = lastCall.ret.model
                    /\ currentModel # lastCall.before)

\* the epochs for which onEpochEnd was called, in the order of the calls
Notified(log) ==
    LET calls == SelectSeq(log, LAMBDA e : e[1] = "onEpochEnd")
    IN [i \in 1..Len(calls) |-> calls[i][2]]

\* C14: in a trainModel call with E epochs onEpochEnd is called once per
\* epoch with the indices 0, 1, ... in increasing order, the call for epoch k
\* comes before epoch k+1 starts, and trainModel returns only after the call
\* for the last epoch, E calls in all.
C14_EpochNotifications ==
    LET log == training.log
        n == Len(Notified(log))
    IN /\ n <= training.epochs
       /\ Notified(log) = [i \in 1..n |-> i - 1]
       /\ \A i \in 1..Len(log) :
             (log[i][1] = "epoch" /\ log[i][2] >= 1)
                => \E j \in 1..(i - 1) : log[j] = <<"onEpochEnd", log[i][2] - 1>>
       /\ \A i \in 1..Len(log) :
             log[i][1] = "onEpochEnd"
                => \E j \in 1..(i - 1) : log[j] = <<"epoch", log[i][2]>>
       /\ training.stage = "done"
             => /\ n = training.epochs
                /\ log[Len(log)] = <<"return", training.epochs>>
                /\ \A i \in 1..(Len(log) - 1) : log[i][1] # "return"

\* a call with two epochs has returned
C14_Witness ==
    /\ training.stage = "done"
    /\ training.epochs = 2
    /\ training.log = <<  <<"epoch", 0>>, <<"onEpochEnd", 0>>,
                          <<"epoch", 1>>, <<"onEpochEnd", 1>>, <<"return", 2>>  >>

\* C15: evaluateModel returns yTrue, yPred and yProb of the length of the
\* test set and in its order, with yPred[i] = 1 if yProb[i] >= threshold and
\* 0 otherwise, so a probability equal to the threshold gives 1; predictText
\* applies the same rule to its one probability for a text that is not empty.
C15_Thresholding ==
    /\ (lastCall.op = "evaluateModel" /\ lastCall.outcome = "ok")
          => LET r == lastCall.ret
                 t == lastCall.args.threshold
                 rows == Len(lastCall.args.probs)
             IN /\ Len(r.yTrue) = rows /\ Len(r.yPred) = rows /\ Len(r.yProb) = rows
                /\ r.yTrue = lastCall.args.yTest
                /\ r.yProb = lastCall.args.probs
                /\ \A i \in 1..rows :
                      r.yPred[i] = IF r.yProb[i] # NaN /\ r.yProb[i] >= t THEN 1 ELSE 0
    /\ (lastCall.op = "predictText" /\ lastCall.outcome = "ok")
          => /\ lastCall.ret.prob = input.prob
             /\ lastCall.ret.pred =
                   IF lastCall.ret.prob # NaN /\ lastCall.ret.prob >= lastCall.args.threshold
                     THEN 1 ELSE 0

\* three rows were evaluated: one below the threshold, one equal to it and
\* one that is NaN
C15_Witness ==
    /\ lastCall.op = "evaluateModel"
    /\ lastCall.outcome = "ok"
    /\ lastCall.args.threshold = 2
    /\ lastCall.ret.yProb = <<1, 2, NaN>>
    /\ lastCall.ret.yPred = <<0, 1, 0>>

\* C16: for a test set whose labels are all 0 or 1, tp + tn + fp + fn is the
\* number of test rows, and tp, tn, fp and fn count the indices where
\* (yTrue, yPred) is (1,1), (0,0), (0,1) and (1,0).
C16_ConfusionIdentity ==
    (/\ lastCall.op = "evaluateModel"
     /\ lastCall.outcome = "ok"
     /\ \A i \in 1..Len(lastCall.args.yTest) : lastCall.args.yTest[i] \in {0, 1})
        => LET r == lastCall.ret
               Count(t, p) == Cardinality({i \in 1..Len(r.yTrue) :
                                  r.yTrue[i] = t /\ r.yPred[i] = p})
           IN /\ r.cm.tp + r.cm.tn + r.cm.fp + r.cm.fn = Len(r.yTrue)
              /\ r.cm.tp = Count(1, 1)
              /\ r.cm.tn = Count(0, 0)
              /\ r.cm.fp = Count(0, 1)
              /\ r.cm.fn = Count(1, 0)

\* three rows gave a true positive, a false positive and a false negative
C16_Witness ==
    /\ lastCall.op = "evaluateModel"
    /\ lastCall.outcome = "ok"
    /\ lastCall.ret.yTrue = <<1, 0, 1>>
    /\ lastCall.ret.yPred = <<1, 1, 0>>
    /\ lastCall.ret.cm = [tp |-> 1, tn |-> 0, fp |-> 1, fn |-> 1]

\* the fraction f is the number n / d, for d > 0
IsQuotient(f, n, d) == f[2] > 0 /\ f[1] * d = n * f[2]

\* C17: precision is tp/(tp+fp), recall tp/(tp+fn) and F1 2PR/(P+R), each of
\* them the number 0 when its denominator is 0 and never NaN; a test set
\* without positive predictions has precision 0.
C17_MetricGuards ==
    (lastCall.op = "evaluateModel" /\ lastCall.outcome = "ok")
        => LET r == lastCall.ret
               cm == r.cm
               P == r.precision
               R == r.recall
           IN /\ P[2] > 0 /\ R[2] > 0 /\ r.f1[2] > 0
              /\ IF cm.tp + cm.fp = 0 THEN P = Zero ELSE IsQuotient(P, cm.tp, cm.tp + cm.fp)
              /\ IF cm.tp + cm.fn = 0 THEN R = Zero ELSE IsQuotient(R, cm.tp, cm.tp + cm.fn)
              /\ IF P[1] = 0 /\ R[1] = 0 THEN r.f1 = Zero
                 ELSE IsQuotient(r.f1, 2 * P[1] * R[1], P[1] * R[2] + R[1] * P[2])
              /\ (\A i \in 1..Len(r.yPred) : r.yPred[i] = 0) => P = Zero

\* no row was predicted positive although one is positive: precision, recall
\* and F1 are 0
C17_Witness ==
    /\ lastCall.op = "evaluateModel"
    /\ lastCall.outcome = "ok"
    /\ lastCall.ret.yPred = <<0, 0>>
    /\ lastCall.ret.yTrue = <<1, 0>>
    /\ lastCall.ret.precision = Zero
    /\ lastCall.ret.recall = Zero
    /\ lastCall.ret.f1 = Zero

\* the text is empty, missing or made of whitespace only
Blank(text) ==
    \/ text.kind = "undefined"
    \/ text.kind = "string" /\ \A i \in 1..Len(text.s) : text.s[i] \in Whitespace

\* C18: with a live model, predictText on a text that is empty or blank
\* returns {prob: NaN, pred: null} without an error, without a forward pass
\* and without creating a tensor.
C18_BlankText ==
    (lastCall.op = "predictText" /\ lastCall.hadModel /\ Blank(lastCall.args.text))
        => /\ lastCall.outcome = "nan"
           /\ lastCall.ret.prob = NaN
           /\ lastCall.ret.pred = Null
           /\ ~lastCall.ret.forward
           /\ lastCall.ret.allocated = 0

\* C19: saveModel fails when no model is live, whatever the tokenizer state
\* argument, and fails when a model is live and the argument is absent; no
\* step of it changes the current model or the tokenizer state; a save that
\* succeeds returns the passed tokenizer state (wordIndex, indexWord, seqLen,
\* removeStopwords, maxVocab) with the topology and the weights of the model
\* that was current when it was called and a save timestamp.
C19_SaveModel ==
    [][(lastCall' # lastCall /\ lastCall'.op = "saveModel")
        => /\ pending \subseteq pending' => lastCall'.hadModel = (currentModel # 0)
           /\ ~lastCall'.hadModel
                => lastCall'.outcome = "error" /\ lastCall'.error = "No model to save."
           /\ (lastCall'.hadModel /\ lastCall'.args.tokenizerMeta = Absent)
                => (/\ lastCall'.outcome = "error"
                    /\ lastCall'.error = "Tokenizer metadata is required for saving.")
           /\ currentModel' = currentModel
           /\ tokenizer' = tokenizer
           /\ lastCall'.args.tokenizerMeta # Absent
                => lastCall'.args.tokenizerMeta = TokenizerMeta(tokenizer', input'.seqLen)
           /\ lastCall'.outcome = "pending"
                => \E q \in pending' \ pending :
                      /\ q.op = "saveModel"
                      /\ q.args = lastCall'.args
                      /\ q.art = artifacts
           /\ lastCall'.outcome = "ok"
                => \E q \in pending \ pending' :
                      LET d == lastCall'.ret.modelData
                      IN /\ q.op = "saveModel"
                         /\ d.tokenizerMeta = q.args.tokenizerMeta
                         /\ {"wordIndex", "indexWord", "seqLen", "removeStopwords",
                             "maxVocab"} \subseteq DOMAIN d.tokenizerMeta
                         /\ d.modelTopology = q.art.topology
                         /\ d.weightSpecs = q.art.weightSpecs
                         /\ d.weightData = q.art.weightData
                         /\ "savedAt" \in DOMAIN d]_vars

\* the second model was saved with the tokenizer fitted on "t a a"
C19_Witness ==
    /\ lastCall.op = "saveModel"
    /\ lastCall.outcome = "ok"
    /\ currentModel = 2
    /\ lastCall.ret.modelData.modelTopology = [inputDim |-> 2, inputLength |-> 2]
    /\ lastCall.ret.modelData.weightData = InitialWeights
    /\ lastCall.ret.modelData.tokenizerMeta.wordIndex[<<"a">>] = 2
    /\ lastCall.ret.modelData.tokenizerMeta.seqLen = 2

\* C20: loadModel fails when the bundle lacks the model topology, the weight
\* specs, the weight data or the tokenizer metadata or holds a malformed one,
\* a load that fails leaves the current model as it was before the call, and
\* only a load that succeeds replaces it.
C20_LoadValidates ==
    lastCall.op = "loadModel"
        => /\ lastCall.args.file \notin {"valid", "download"}
                => lastCall.outcome \in {"pending", "error"}
           /\ lastCall.outcome \in {"pending", "error"} => currentModel = lastCall.before
           /\ lastCall.outcome = "ok"
                => currentModel = lastCall.ret.model /\ currentModel # lastCall.before

\* C21: when the tokenizer state of the loaded bundle is the state of a
\* fitted Tokenizer as saveModel writes it and loadModel reads it, the
\* object the app builds from it gives, for the same argument, what that
\* Tokenizer gives: _normalize, textsToSequences, and padSequences at the
\* stored seqLen.  A bundle whose tokenizerMeta no Tokenizer produced, such
\* as {}, is outside the claim.
C21_RebuiltEquivalent ==
    (/\ loadedCall.op # "none"
     /\ tokCall.op = loadedCall.op
     /\ loadedCall.state = JsonToMeta(MetaToJson(TokenizerMeta(tokenizer, input.seqLen))))
        => /\ loadedCall.outcome = "ok"
           /\ tokCall.outcome = "ok"
           /\ tokCall.arg = loadedCall.arg
           /\ tokCall.seqLen = loadedCall.seqLen
           /\ tokCall.ret = loadedCall.ret

\* with removeStopwords set and the vocabulary of "t a a", both objects
\* encode "a t" as the id of t alone
C21_Witness ==
    /\ tokenizer.removeStopwords
    /\ loadedCall.op = "textsToSequences"
    /\ loadedCall.state = JsonToMeta(MetaToJson(TokenizerMeta(tokenizer, input.seqLen)))
    /\ tokCall.op = "textsToSequences"
    /\ loadedCall.arg = <<Str(<<"a", " ", "t">>)>>
    /\ loadedCall.ret = <<(<<2>>)>>

\* C22: when loadModel is given the file a saveModel call wrote, the current
\* model has the topology and the weight bytes of the model that was saved,
\* the tokenizer state it returns is the one passed to saveModel, and the
\* row predictText hands the model for a text is the same as before.
C22_RoundTrip ==
    [][(/\ lastCall' # lastCall
        /\ lastCall'.op = "loadModel"
        /\ lastCall'.outcome = "ok"
        /\ lastCall'.args.file = "download")
        => /\ artifacts' = artifacts
           /\ lastCall'.ret.tokenizerMeta = TokenizerMeta(tokenizer, input.seqLen)
           /\ dataset'.tokenizerMeta = TokenizerMeta(tokenizer, input.seqLen)
           /\ LoadedPadSequences(<<LoadedEncodeText(dataset'.tokenizer, input.text)>>,
                                 dataset'.tokenizerMeta.seqLen)
                = PadSequences(<<EncodeText(tokenizer, input.text)>>, input.seqLen)]_vars

\* the training and evaluation calls in flight
ModelWork == {p \in pending : p.op \in {"trainModel", "evaluateModel"}}

\* C23: under every interleaving of clicks on Train and Evaluate at most one
\* trainModel or evaluateModel call is in flight, and the model a call in
\* flight runs on is neither disposed nor replaced as the current model.
C23_Serialized ==
    /\ Cardinality(ModelWork) <= 1
    /\ \A p \in ModelWork : p.model \in liveModels /\ p.model = currentModel

\* C24: no tensor of the dataset is disposed while a trainModel or
\* evaluateModel call that was given it is in flight.
C24_Borrowed ==
    \A p \in ModelWork : p.tensors \cap disposed = {}

\* C25: every tensor evaluateModel or predictText creates is disposed when
\* the call returns or throws: the number of live tensors after the call is
\* the number before it.
C25_TensorsDisposed ==
    (lastCall.op \in {"evaluateModel", "predictText"} /\ lastCall.outcome # "pending")
        => lastCall.tensors.disposed = lastCall.tensors.created

\* C27: whenever the page calls predictText or saveModel with a current
\* model, the tokenizer state it hands over is the one of the model: its
\* vocabSize and seqLen are the model's, and every id of its vocabulary is
\* below the model's vocabSize.
C27_TokenizerOfModel ==
    (/\ \/ lastCall.op = "predictText"
        \/ lastCall.op = "saveModel" /\ lastCall.outcome = "pending"
     /\ lastCall.hadModel
     /\ lastCall.args.tokenizerMeta \notin {Absent, EmptyMeta})
        => /\ lastCall.args.tokenizerMeta.vocabSize = artifacts.topology.inputDim
           /\ lastCall.args.tokenizerMeta.seqLen = artifacts.topology.inputLength
           /\ \A w \in DOMAIN lastCall.args.tokenizerMeta.wordIndex :
                 lastCall.args.tokenizerMeta.wordIndex[w] < artifacts.topology.inputDim

\* C28: when Train runs, the model it creates has the vocabSize and the
\* seqLen of the tokenizer that encoded dataset.X_train: every id in X_train
\* is below the model's vocabSize and its rows are as wide as the model's
\* seqLen.
C28_ModelOfDataset ==
    [][(lastCall'.op = "trainModel" /\ currentModel' # currentModel)
        => /\ artifacts'.topology.inputDim = dataset.X_train.encodedBy.vocabSize
           /\ artifacts'.topology.inputLength = dataset.X_train.encodedBy.seqLen
           /\ \A i \in 1..Len(dataset.X_train.values) :
                 /\ Len(dataset.X_train.values[i]) = artifacts'.topology.inputLength
                 /\ \A k \in 1..Len(dataset.X_train.values[i]) :
                       dataset.X_train.values[i][k] < artifacts'.topology.inputDim]_vars

\* C29: each of dataset.X_train, y_train, X_test and y_test is null or a
\* tensor that is not disposed, whether the prepareTensors of a Load CSV
\* returned or threw.
C29_NoDanglingTensors ==
    DatasetTensors(dataset) \cap disposed = {}

\* the names of the parameters a URL carries
Carried(u) == {ScrapeUrls[u][i][1] : i \in 1..Len(ScrapeUrls[u])}

\* the methods in the order of scrapeRealComments
MethodOrder == <<"api", "page", "proxy">>

\* what C30 says of a call for a URL with both parameters: it does not
\* throw, the methods are tried in order, none after one that gave
\* comments, and what is returned are the comments of that method, or the
\* sample comments when all three gave none
FallbackOrder ==
    /\ scrape.stage # "thrown"
    /\ Len(scrape.attempted) <= 3
    /\ \A i \in 1..Len(scrape.attempted) :
          /\ scrape.attempted[i][1] = MethodOrder[i]
          /\ scrape.attempted[i][2] = "comments" => i = Len(scrape.attempted)
    /\ scrape.stage = "returned"
          => \/ /\ scrape.attempted # <<>>
                /\ scrape.attempted[Len(scrape.attempted)][2] = "comments"
                /\ scrape.result = scrape.attempted[Len(scrape.attempted)][1]
             \/ /\ Len(scrape.attempted) = 3
                /\ scrape.attempted[3][2] # "comments"
                /\ scrape.result = "simulated"

\* a call that throws before any method is tried
ThrownAtOnce == scrape.stage = "thrown" /\ scrape.attempted = <<>>

\* C30 as stated: a call for a URL that carries ll and poi[uri] follows the
\* fallback order and never throws; a call for a URL that lacks one of them
\* throws before any method is tried.
C30_FallbackCarried ==
    scrape.stage # "idle"
        => IF {"ll", "poi[uri]"} \subseteq Carried(scrape.url)
             THEN FallbackOrder
             ELSE ThrownAtOnce

\* C30: a call for a URL that gives ll and poi[uri] a value that is not
\* empty never throws, tries the API method, page parsing and the proxy in
\* this order, returns the comments of the first method that gives at least
\* one without trying a later one, and returns the sample comments when all
\* three throw or give none; a call for a URL in which ll or poi[uri] is
\* missing or empty throws before any method is tried.
C30_FallbackGiven ==
    scrape.stage # "idle"
        => IF /\ ~NotGiven(UrlGet(ScrapeUrls[scrape.url], "ll"))
              /\ ~NotGiven(UrlGet(ScrapeUrls[scrape.url], "poi[uri]"))
             THEN FallbackOrder
             ELSE ThrownAtOnce

\* the API method gave an empty list, page parsing threw and the proxy gave
\* the comments that were returned
C30_Witness ==
    /\ scrape.stage = "returned"
    /\ scrape.result = "proxy"
    /\ scrape.attempted = <<(<<"api", "empty">>), <<"page", "throws">>,
                            <<"proxy", "comments">>>>

\* C26: after fitOnTexts is called a second time on the same Tokenizer with
\* another corpus, the vocabulary holds only the two reserved entries and
\* words of the second corpus, wordIndex and indexWord are inverse to each
\* other (no two words share an id), and vocabSize is 2 plus the number of
\* words the second fit gave an id.
C26_RefitDiscards ==
    tokCall.op = "fitOnTexts again"
        => LET second == DistinctWords(tokenizer.removeStopwords, tokCall.arg)
               wi == tokenizer.wordIndex
               iw == tokenizer.indexWord
               given == IF Cardinality(second) < Limit(tokenizer.numWords)
                          THEN Cardinality(second) ELSE Limit(tokenizer.numWords)
           IN /\ Assigned(tokenizer) \subseteq second
              /\ \A w \in DOMAIN wi : wi[w] \in DOMAIN iw /\ iw[wi[w]] = w
              /\ \A i \in DOMAIN iw : iw[i] \in DOMAIN wi /\ wi[iw[i]] = i
              /\ tokenizer.vocabSize = 2 + given

(***************************************************************************)
(* evaluateModel on every test set within the bounds, predictText on       *)
(* texts that are empty, blank and neither                                 *)
(***************************************************************************)
\* 0.25, 0.5, 0.75 and NaN
Probs == {1, 2, 3, NaN}

\* 0.25 and the default 0.5
Thresholds == {1, 2}

\* the labels of a test set; parseCSVFile gives 0 and 1
TestLabels == {0, 1, 2}

\* a test set of up to MaxTest rows, the probabilities of its rows and a
\* threshold
EvalInput(in) ==
    \E n \in 1..MaxTest :
        \E y \in [1..n -> TestLabels], p \in [1..n -> Probs], t \in Thresholds :
            in = [SampleInput EXCEPT !.yTest = y, !.probs = p, !.threshold = t]

\* "", undefined, " ", " \t", "a t" and "T!"
PredictTexts ==
    {Str(<<>>), [kind |-> "undefined", s |-> <<>>], Str(<<" ">>), Str(<<" ", "\t">>),
     Str(<<"a", " ", "t">>), Str(<<"T", "!">>)}

\* a text, the probability the model gives it and a threshold
PredictInput(in) ==
    \E x \in PredictTexts, p \in Probs, t \in Thresholds :
        in = [SampleInput EXCEPT !.text = x, !.prob = p, !.threshold = t]

InitEval ==
    /\ RnnInit
    /\ AppIdle
    /\ PrepIdle
    /\ tokenizer = SampleTokenizer
    /\ tokCall = NoTokCall
    /\ EvalInput(input) \/ PredictInput(input)

\* a model for the vocabulary and the seqLen of the tokenizer is created,
\* then the test set is evaluated and the text predicted; the caller awaits
\* an evaluateModel call before it makes the next
NextEval ==
    \/ currentModel = 0 /\ \E th \in BOOLEAN : createModel(2, 2, th)
    \/ pending = {} /\ \E th \in EvalThrows : evaluateModel(th)
    \/ \E p \in pending, th \in EvalThrows : evaluateModelData(p, th)
    \/ \E p \in pending, th \in EvalThrows : evaluateModelProbs(p, th)
    \/ \E p \in pending, th \in EvalThrows : evaluateModelLabels(p, th)
    \/ \E th \in PredictThrows : predictText(th)

SpecEval == InitEval /\ [][NextEval]_vars

(***************************************************************************)
(* Saving a trained model with the tokenizer state of prepareTensors and   *)
(* loading the file in the page, with the methods of the Tokenizer and of  *)
(* the object built from the file                                          *)
(***************************************************************************)
\* the bytes of a weight buffer
WeightBytes == {0, 128, 255}

\* ["t a a"] and ["A t!", "constructor 7 t"]
SaveCorpora ==
    {<<Str(<<"t"," ","a"," ","a">>)>>,
     <<Str(<<"A"," ","t","!">>),
       Str(<<"c","o","n","s","t","r","u","c","t","o","r"," ","7"," ","t">>)>>}

\* "", "a t", "constructor t", "T! 7" and " \t"
SaveTexts ==
    {Str(<<>>),
     Str(<<"a"," ","t">>),
     Str(<<"c","o","n","s","t","r","u","c","t","o","r"," ","t">>),
     Str(<<"T","!"," ","7">>),
     Str(<<" ","\t">>)}

\* lists of id sequences to pad
SaveSeqs == {<<(<<2, 1, 3>>), <<>>>>, <<(<<1>>)>>}

\* The page after Load CSV and Train: the tokenizer prepareTensors fitted
\* (maxVocab is NaN when the field was left blank: Math.max(0, NaN - 2) is
\* NaN and slice(0, NaN) takes no word, as a limit of 0 does), and a current
\* model built for its vocabulary whose weights training has set.
InitSave ==
    /\ AppIdle
    /\ PrepIdle
    /\ \E cap \in {NaN, MaxCap}, flag \in BOOLEAN, c \in SaveCorpora :
          tokenizer = Fitted(NewTokenizer(cap, flag), c)
    /\ tokCall = NoTokCall
    /\ \E t \in SaveTexts, q \in SaveSeqs :
          input = [SampleInput EXCEPT !.text = t, !.texts = <<t>>, !.seqs = q]
    /\ currentModel = 1
    /\ liveModels = {1}
    /\ nextModelId = 2
    /\ lastCall = NoCall
    /\ training = NoTraining
    /\ \E w \in [1..MaxWeightBytes -> WeightBytes] :
          artifacts = [topology |-> [inputDim |-> tokenizer.vocabSize,
                                     inputLength |-> input.seqLen],
                       weightSpecs |-> [bytes |-> MaxWeightBytes],
                       weightData |-> w]

\* the user waits for a save or a load to end before the next click
NextSave ==
    \/ pending = {} /\ \E meta \in {Absent, TokenizerMeta(tokenizer, input.seqLen)} :
                          saveModel(meta)
    \/ \E p \in pending, th \in BOOLEAN : saveModelSaved(p, th)
    \/ pending = {} /\ \E f \in {"download", "emptytokenizermeta", "notjson"} :
                          btnLoadModel(f)
    \/ \E p \in pending : loadModelRead(p)
    \/ \E p \in pending : btnLoadModelDone(p)
    \/ normalize
    \/ textsToSequences
    \/ padSequences
    \/ loadedNormalize
    \/ loadedTextsToSequences
    \/ loadedPadStored

SpecSave == InitSave /\ [][NextSave]_vars

(***************************************************************************)
(* The page without the Yandex analysis: the buttons that read or write    *)
(* the dataset and the model clicked in any order, a handler resumed       *)
(* whenever what it waits for is done                                      *)
(***************************************************************************)
InitApp ==
    /\ RnnInit
    /\ AppIdle
    /\ PrepIdle
    /\ TokIdle

NextDataset ==
    \/ \E f \in CsvFiles : btnLoad(f)
    \/ \E p \in pending, n \in SeqLenFields : btnLoadParsed(p, n)
    \/ \E th \in TrainThrows : btnTrain(th)
    \/ fitEpochStart
    \/ \E th \in BOOLEAN : fitEpochEnd(th)
    \/ nextFrame
    \/ fitThrows
    \/ fitReturn
    \/ \E p \in pending : btnTrainDone(p)
    \/ \E th \in EvalThrows : btnEvaluate(th)
    \/ \E p \in pending, th \in EvalThrows : evaluateModelData(p, th)
    \/ \E p \in pending, th \in EvalThrows : evaluateModelProbs(p, th)
    \/ \E p \in pending, th \in EvalThrows : evaluateModelLabels(p, th)
    \/ \E th \in PredictThrows : btnPredict(th)
    \/ btnSave
    \/ \E p \in pending, th \in BOOLEAN : saveModelSaved(p, th)
    \/ \E f \in {"valid", "emptytokenizermeta", "notjson"} : btnLoadModel(f)
    \/ \E p \in pending : loadModelRead(p)
    \/ \E p \in pending : btnLoadModelDone(p)
    \/ beforeunload

SpecDataset == InitApp /\ [][NextDataset]_vars

(***************************************************************************)
(* The page: every button clicked in any order                             *)
(***************************************************************************)
NextAnalyze ==
    \/ \E u \in {"blank", "noquery", "both"} : btnAnalyzeYandex(u)
    \/ \E p \in pending, out \in ApiOutcomes : scrapeApi(p, out)
    \/ \E p \in pending, out \in PageOutcomes : scrapePage(p, out)
    \/ \E p \in pending, out \in ProxyOutcomes, th \in PredictThrows :
           analyzePlace(p, out, th)

NextApp == NextDataset \/ NextAnalyze

SpecApp == InitApp /\ [][NextApp]_vars

(***************************************************************************)
(* scrapePlaceComments called on one YandexMapsScraper again and again,    *)
(* its calls in flight interleaved                                         *)
(***************************************************************************)
InitScrape ==
    /\ RnnInit
    /\ AppIdle
    /\ PrepIdle
    /\ TokIdle

NextScrape ==
    \/ \E u \in DOMAIN ScrapeUrls : scrapePlaceComments(u)
    \/ \E p \in pending, out \in ApiOutcomes : scrapeApi(p, out)
    \/ \E p \in pending, out \in PageOutcomes : scrapePage(p, out)
    \/ \E p \in pending, out \in ProxyOutcomes : scrapeProxy(p, out)

SpecScrape == InitScrape /\ [][NextScrape]_vars

(***************************************************************************)
(* The operations of rnn.js in any order and with their calls in flight    *)
(* interleaved, with the tokenizer and the test set a caller holds after   *)
(* prepareTensors.  trainModel is called for no epochs, so that fit        *)
(* returns in its first step.                                              *)
(***************************************************************************)
Init ==
    /\ RnnInit
    /\ AppIdle
    /\ PrepIdle
    /\ tokenizer = SampleTokenizer
    /\ tokCall = NoTokCall
    /\ \E t \in SampleTexts : input = [SampleInput EXCEPT !.text = t]

Next ==
    \/ \E th \in BOOLEAN : createModel(2, 2, th)
    \/ \E f \in {"nofile", "notjson", "valid"} : loadModel(f)
    \/ \E p \in pending : loadModelRead(p)
    \/ \E p \in pending : loadModelLoaded(p)
    \/ disposeModel
    \/ trainModel(0)
    \/ fitReturn
    \/ \E th \in EvalThrows : evaluateModel(th)
    \/ \E p \in pending, th \in EvalThrows : evaluateModelData(p, th)
    \/ \E p \in pending, th \in EvalThrows : evaluateModelProbs(p, th)
    \/ \E p \in pending, th \in EvalThrows : evaluateModelLabels(p, th)
    \/ \E th \in PredictThrows : predictText(th)
    \/ \E meta \in {Absent, TokenizerMeta(tokenizer, input.seqLen)} : saveModel(meta)
    \/ \E p \in pending, th \in BOOLEAN : saveModelSaved(p, th)

Spec == Init /\ [][Next]_vars

(***************************************************************************)
(* createModel on every pair of sizes                                      *)
(***************************************************************************)
InitCreate ==
    /\ RnnInit
    /\ AppIdle
    /\ PrepIdle
    /\ tokenizer = SampleTokenizer
    /\ tokCall = NoTokCall
    /\ input = SampleInput

NextCreate ==
    \/ \E v \in SizeArgs, s \in SizeArgs, th \in BOOLEAN : createModel(v, s, th)
    \/ disposeModel

SpecCreate == InitCreate /\ [][NextCreate]_vars

(***************************************************************************)
(* trainModel for every number of epochs, one call at a time               *)
(***************************************************************************)
NextTrain ==
    \/ createModel(2, 2, FALSE)
    \/ disposeModel
    \/ \E e \in 0..MaxEpochs : trainModel(e)
    \/ fitEpochStart
    \/ \E th \in BOOLEAN : fitEpochEnd(th)
    \/ nextFrame
    \/ fitThrows
    \/ fitReturn

SpecTrain == InitCreate /\ [][NextTrain]_vars

(***************************************************************************)
(* loadModel on every file, its calls in flight interleaved with each      *)
(* other and with createModel, disposeModel and saveModel                  *)
(***************************************************************************)
NextLoad ==
    \/ createModel(2, 2, FALSE)
    \/ disposeModel
    \/ \E f \in LoadFiles : loadModel(f)
    \/ \E p \in pending : loadModelRead(p)
    \/ \E p \in pending : loadModelLoaded(p)
    \/ saveModel(TokenizerMeta(tokenizer, input.seqLen))
    \/ \E p \in pending : saveModelSaved(p, FALSE)

SpecLoad == InitCreate /\ [][NextLoad]_vars

====
